---- MODULE Spec2Model ----
(***************************************************************************)
(* Model of the Expo webhook relay (three handler variants: the Worker of  *)
(* src/src/worker.ts, the Pages function onRequestPost and the             *)
(* profile-filtering Worker of src/unnamed/part_000) and of the PR <->     *)
(* Notion linker script.  Text is a sequence of one-character strings.     *)
(***************************************************************************)
EXTENDS Integers, Sequences, FiniteSets, TLC

(***************************************************************************)
(* Characters and text                                                     *)
(***************************************************************************)

\* The printable ASCII characters, in code order; AsciiTable[i] has code i + 31.
\* "BQ" stands for the backquote (code 96), which a TLA+ string cannot hold.
AsciiTable ==
  << " ", "!", "\"", "#", "$", "%", "&", "'", "(", ")", "*", "+", ",", "-", ".", "/",
     "0", "1", "2", "3", "4", "5", "6", "7", "8", "9", ":", ";", "<", "=", ">", "?",
     "@", "A", "B", "C", "D", "E", "F", "G", "H", "I", "J", "K", "L", "M", "N", "O",
     "P", "Q", "R", "S", "T", "U", "V", "W", "X", "Y", "Z", "[", "\\", "]", "^", "_",
     "BQ", "a", "b", "c", "d", "e", "f", "g", "h", "i", "j", "k", "l", "m", "n", "o",
     "p", "q", "r", "s", "t", "u", "v", "w", "x", "y", "z", "{", "|", "}", "~" >>

Chars == { AsciiTable[i] : i \in 1..Len(AsciiTable) }

\* String.prototype.charCodeAt for one character.
\* "CTL" stands for a control character and "UNI" for a character beyond ASCII
\* (both can only come from an escape in a JSON string).
charCodeAt ==
  [ c \in Chars \cup { "CTL", "UNI" } |->
      IF c = "CTL" THEN 10
      ELSE IF c = "UNI" THEN 8232
      ELSE 31 + (CHOOSE i \in 1..Len(AsciiTable) : AsciiTable[i] = c) ]

fromCharCode(n) == AsciiTable[n - 31]

IsUpper(c) == charCodeAt[c] >= 65 /\ charCodeAt[c] <= 90
IsLower(c) == charCodeAt[c] >= 97 /\ charCodeAt[c] <= 122
IsDigit(c) == charCodeAt[c] >= 48 /\ charCodeAt[c] <= 57
\* \w of the regular expressions: [A-Za-z0-9_].
IsWordChar(c) == IsUpper(c) \/ IsLower(c) \/ IsDigit(c) \/ c = "_"

toLowerCase(s) ==
  [ i \in 1..Len(s) |-> IF IsUpper(s[i]) THEN fromCharCode(charCodeAt[s[i]] + 32) ELSE s[i] ]

toUpperCase(s) ==
  [ i \in 1..Len(s) |-> IF IsLower(s[i]) THEN fromCharCode(charCodeAt[s[i]] - 32) ELSE s[i] ]

\* String.prototype.includes for a one-character needle.
includes(s, c) == \E i \in 1..Len(s) : s[i] = c

\* Whether text t occurs in s starting at position i.
StartsAt(s, i, t) ==
  /\ i >= 1
  /\ i + Len(t) - 1 <= Len(s)
  /\ \A k \in 1..Len(t) : s[i + k - 1] = t[k]

RECURSIVE Concat(_)
\* The concatenation of a sequence of texts.
Concat(ss) == IF ss = << >> THEN << >> ELSE Head(ss) \o Concat(Tail(ss))

RECURSIVE split(_, _)
\* String.prototype.split for a one-character separator: the pieces between
\* the separators, in order (always at least one piece).
split(s, sep) ==
  IF ~includes(s, sep)
  THEN << s >>
  ELSE LET i == CHOOSE k \in 1..Len(s) : s[k] = sep /\ \A j \in 1..(k - 1) : s[j] # sep
       IN  << SubSeq(s, 1, i - 1) >> \o split(SubSeq(s, i + 1, Len(s)), sep)

(***************************************************************************)
(* Bit operations of the comparison loop                                   *)
(***************************************************************************)

RECURSIVE BitXor(_, _)
BitXor(a, b) ==
  IF a = 0 /\ b = 0 THEN 0
  ELSE (((a % 2) + (b % 2)) % 2) + 2 * BitXor(a \div 2, b \div 2)

RECURSIVE BitOr(_, _)
BitOr(a, b) ==
  IF a = 0 /\ b = 0 THEN 0
  ELSE (IF (a % 2) = 1 \/ (b % 2) = 1 THEN 1 ELSE 0) + 2 * BitOr(a \div 2, b \div 2)

RECURSIVE XorFold(_, _, _, _)
\* The loop `for (i...) r |= a.charCodeAt(i) ^ b.charCodeAt(i)` over the
\* positions lo..hi: the OR of every position's XOR (OR is associative, so
\* the halves are folded apart; every position is read, none is skipped).
XorFold(a, b, lo, hi) ==
  IF lo > hi THEN 0
  ELSE IF lo = hi THEN BitXor(charCodeAt[a[lo]], charCodeAt[b[lo]])
  ELSE LET mid == (lo + hi) \div 2
       IN  BitOr(XorFold(a, b, lo, mid), XorFold(a, b, mid + 1, hi))

timingSafeEq_MutSkipsLast(a, b) ==
  IF Len(a) # Len(b) THEN FALSE ELSE XorFold(a, b, 1, Len(a) - 1) = 0

timingSafeEq_MutPrefix(a, b) ==
  IF Len(a) > Len(b) THEN FALSE ELSE XorFold(a, b, 1, Len(a)) = 0

\* timingSafeEq / timingSafeEqualB64: false on a length mismatch, else the
\* accumulated XOR of every position is zero.
timingSafeEq(a, b) ==
  IF Len(a) # Len(b) THEN FALSE ELSE XorFold(a, b, 1, Len(a)) = 0

compareStep_MutStopsAtDifference(a, b, i, st) ==
  IF st.r # 0 THEN st
  ELSE [ r |-> BitOr(st.r, BitXor(charCodeAt[a[i]], charCodeAt[b[i]])),
         examined |-> st.examined + 1 ]

\* One iteration of the loop, `r |= a.charCodeAt(i) ^ b.charCodeAt(i)`: the
\* accumulator after it, and one more position examined.
compareStep(a, b, i, st) ==
  [ r |-> BitOr(st.r, BitXor(charCodeAt[a[i]], charCodeAt[b[i]])),
    examined |-> st.examined + 1 ]

RECURSIVE compareLoop(_, _, _, _, _)
\* `for (let i = 0; i < a.length; i++) ...` over the positions lo..hi in
\* order, from the state st: each iteration starts from what the one before
\* it left (the range is halved only to keep the evaluation shallow).
compareLoop(a, b, lo, hi, st) ==
  IF lo > hi THEN st
  ELSE IF lo = hi THEN compareStep(a, b, lo, st)
  ELSE LET mid == (lo + hi) \div 2
       IN  CHOOSE end \in { compareLoop(a, b, mid + 1, hi, half) :
                               half \in { compareLoop(a, b, lo, mid, st) } } : TRUE

\* One call of timingSafeEq / timingSafeEqualB64, statement by statement:
\* what it returns and how many character positions it examined.
timingSafeEqRun(a, b) ==
  IF Len(a) # Len(b) THEN [ result |-> FALSE, examined |-> 0 ]
  ELSE LET l == compareLoop(a, b, 1, Len(a), [ r |-> 0, examined |-> 0 ])
       IN  [ result |-> l.r = 0, examined |-> l.examined ]

(***************************************************************************)
(* Keyed digests and their encodings                                       *)
(***************************************************************************)

\* Digest sizes in bytes of the two hash algorithms the handlers name.
Sha1Bytes == 20
Sha256Bytes == 32

\* Modulus of the stand-in digest (a prime above every character code).
HashPrime == 32749

RECURSIVE PowMod(_, _)
\* 131^e modulo HashPrime, by squaring.
PowMod(b, e) ==
  IF e = 0 THEN 1
  ELSE LET half == PowMod(b, e \div 2)
       IN  IF e % 2 = 0 THEN (half * half) % HashPrime
           ELSE (((half * half) % HashPrime) * b) % HashPrime

RECURSIVE PolySum(_, _, _)
\* The sum over positions lo..hi of code(s[i]) * 131^i, modulo HashPrime.
PolySum(s, lo, hi) ==
  IF lo > hi THEN 0
  ELSE IF lo = hi THEN (charCodeAt[s[lo]] * PowMod(131, lo)) % HashPrime
  ELSE LET mid == (lo + hi) \div 2
       IN  (PolySum(s, lo, mid) + PolySum(s, mid + 1, hi)) % HashPrime

\* Polynomial hash of a text from seed h: the stand-in for the hash core.
\* Changing one character changes it (HashPrime is prime and divides neither
\* the difference of two codes nor a power of 131).
PolyHash(s, h) == (h + Len(s) + PolySum(s, 1, Len(s))) % HashPrime

\* crypto.subtle.sign("HMAC", key, body): the platform's keyed digest, of n
\* bytes.  The stand-in keeps what the handlers rely on: it is a function of
\* (algorithm, secret, body), of the algorithm's length, and distinct for the
\* distinct inputs of the model (no collisions).
Hmac(n, secret, body) ==
  LET k == PolyHash(secret, n)
      h == PolyHash(body, k)
  IN  [ i \in 1..n |->
          IF i = 1 THEN h % 256
          ELSE IF i = 2 THEN h \div 256
          ELSE (h * i + k * 7 + i * i) % 256 ]

HexDigits == << "0", "1", "2", "3", "4", "5", "6", "7",
                "8", "9", "a", "b", "c", "d", "e", "f" >>

\* bytesToHex: two lowercase hex digits per byte.
bytesToHex(bytes) ==
  [ i \in 1..(2 * Len(bytes)) |->
      LET b == bytes[(i + 1) \div 2]
      IN  IF i % 2 = 1 THEN HexDigits[(b \div 16) + 1] ELSE HexDigits[(b % 16) + 1] ]

B64Table ==
  << "A", "B", "C", "D", "E", "F", "G", "H", "I", "J", "K", "L", "M", "N", "O", "P",
     "Q", "R", "S", "T", "U", "V", "W", "X", "Y", "Z", "a", "b", "c", "d", "e", "f",
     "g", "h", "i", "j", "k", "l", "m", "n", "o", "p", "q", "r", "s", "t", "u", "v",
     "w", "x", "y", "z", "0", "1", "2", "3", "4", "5", "6", "7", "8", "9", "+", "/" >>

RECURSIVE bytesToB64(_)
\* bytesToB64 / btoa(String.fromCharCode(...bytes)): base64 with "=" padding.
bytesToB64(bytes) ==
  IF Len(bytes) = 0 THEN << >>
  ELSE IF Len(bytes) = 1 THEN
    << B64Table[(bytes[1] \div 4) + 1],
       B64Table[((bytes[1] % 4) * 16) + 1], "=", "=" >>
  ELSE IF Len(bytes) = 2 THEN
    << B64Table[(bytes[1] \div 4) + 1],
       B64Table[((bytes[1] % 4) * 16 + (bytes[2] \div 16)) + 1],
       B64Table[((bytes[2] % 16) * 4) + 1], "=" >>
  ELSE
    << B64Table[(bytes[1] \div 4) + 1],
       B64Table[((bytes[1] % 4) * 16 + (bytes[2] \div 16)) + 1],
       B64Table[((bytes[2] % 16) * 4 + (bytes[3] \div 64)) + 1],
       B64Table[(bytes[3] % 64) + 1] >>
    \o bytesToB64(SubSeq(bytes, 4, Len(bytes)))

\* computeHmacs: both digests of the raw body, each in base64 and in hex.
computeHmacs(body, secret) ==
  LET sig1   == Hmac(Sha1Bytes, secret, body)
      sig256 == Hmac(Sha256Bytes, secret, body)
  IN  [ sha1b64 |-> bytesToB64(sig1),   sha1hex |-> bytesToHex(sig1),
        sha256b64 |-> bytesToB64(sig256), sha256hex |-> bytesToHex(sig256) ]

providedOf_MutWholeHeader(header) == header

providedOf_MutRestAfterFirst(header) ==
  IF includes(header, "=")
  THEN LET i == CHOOSE k \in 1..Len(header) :
                  header[k] = "=" /\ \A j \in 1..(k - 1) : header[j] # "="
       IN  SubSeq(header, i + 1, Len(header))
  ELSE header

\* `header.includes("=") ? header.split("=")[1] : header`: the second piece
\* of the header split at every "=".
providedOf(header) ==
  IF includes(header, "=") THEN split(header, "=")[2] ELSE header

\* verifyHmacSha1Base64 (worker.ts and onRequestPost): the provided value
\* against the base64 SHA-1 digest.  Nothing in the try block throws for a
\* string header and a non-empty secret, so the catch is never taken.
verifyHmacSha1Base64(bodyText, secret, header) ==
  LET provided == providedOf(header)
      expected == bytesToB64(Hmac(Sha1Bytes, secret, bodyText))
  IN  timingSafeEq(provided, expected)

\* The signature check inlined in the profile-filtering fetch: the provided
\* value against the four expected encodings.
verifyAnyDigest(rawBody, secret, sigHeader) ==
  LET provided == providedOf(sigHeader)
      exp      == computeHmacs(rawBody, secret)
  IN  \/ timingSafeEq(provided, exp.sha1b64)
      \/ timingSafeEq(provided, exp.sha1hex)
      \/ timingSafeEq(provided, exp.sha256b64)
      \/ timingSafeEq(provided, exp.sha256hex)

\* The comparisons that signature check evaluates, in order: the operands of
\* the chain of || from left to right, up to the first that is true.
comparisonsMade(rawBody, secret, sigHeader) ==
  LET provided == providedOf(sigHeader)
      exp      == computeHmacs(rawBody, secret)
      chain    == << [ alg |-> "sha1", enc |-> "b64", expected |-> exp.sha1b64 ],
                     [ alg |-> "sha1", enc |-> "hex", expected |-> exp.sha1hex ],
                     [ alg |-> "sha256", enc |-> "b64", expected |-> exp.sha256b64 ],
                     [ alg |-> "sha256", enc |-> "hex", expected |-> exp.sha256hex ] >>
      hits     == { i \in 1..Len(chain) : timingSafeEq(provided, chain[i].expected) }
  IN  IF hits = { } THEN chain
      ELSE SubSeq(chain, 1, CHOOSE i \in hits : \A j \in hits : i <= j)


(***************************************************************************)
(* JSON texts and values                                                   *)
(***************************************************************************)

\* A JSON value: t is its type, s the text of a string or number literal,
\* kv the members of an object (or the elements of an array, keys empty).
JV(t, s, kv) == [ t |-> t, s |-> s, kv |-> kv ]
JString(s) == JV("str", s, << >>)
JObject(kv) == JV("obj", << >>, kv)
JUndefined == JV("undef", << >>, << >>)
EmptyObject == JObject(<< >>)

ParseFail == [ ok |-> FALSE, v |-> JUndefined, i |-> 0 ]
ParseOk(v, i) == [ ok |-> TRUE, v |-> v, i |-> i ]

\* The index of the first character at or after i that is no white space.
SkipWs(s, i) ==
  IF \E k \in i..Len(s) : s[k] # " "
  THEN CHOOSE k \in i..Len(s) : s[k] # " " /\ \A j \in i..(k - 1) : s[j] = " "
  ELSE IF i > Len(s) THEN i ELSE Len(s) + 1

IsHex(c) == IsDigit(c) \/ c \in { "a", "b", "c", "d", "e", "f", "A", "B", "C", "D", "E", "F" }

\* The index after the run of digits that starts at i.
DigitsEnd(s, i) ==
  IF \E k \in i..Len(s) : ~IsDigit(s[k])
  THEN CHOOSE k \in i..Len(s) : ~IsDigit(s[k]) /\ \A j \in i..(k - 1) : IsDigit(s[j])
  ELSE IF i > Len(s) THEN i ELSE Len(s) + 1

RECURSIVE ParseStringBody(_, _, _)
\* The characters of a string literal from i (after the opening quote) to
\* its closing quote, appended to acc.  The run up to the next quote or
\* backslash is taken whole; an escaped control character becomes "CTL", a
\* \u escape "UNI".
ParseStringBody(s, i, acc) ==
  IF ~\E e \in i..Len(s) : s[e] \in { "\"", "\\" } THEN ParseFail
  ELSE
    LET e   == CHOOSE k \in i..Len(s) :
                 s[k] \in { "\"", "\\" } /\ \A j \in i..(k - 1) : s[j] \notin { "\"", "\\" }
        run == acc \o SubSeq(s, i, e - 1)
    IN  IF s[e] = "\"" THEN ParseOk(JString(run), e + 1)
        ELSE IF e + 1 > Len(s) THEN ParseFail
        ELSE IF s[e + 1] \in { "\"", "\\", "/" }
          THEN ParseStringBody(s, e + 2, Append(run, s[e + 1]))
        ELSE IF s[e + 1] \in { "b", "f", "n", "r", "t" }
          THEN ParseStringBody(s, e + 2, Append(run, "CTL"))
        ELSE IF s[e + 1] = "u" /\ e + 5 <= Len(s) /\ \A k \in 2..5 : IsHex(s[e + k])
          THEN ParseStringBody(s, e + 6, Append(run, "UNI"))
        ELSE ParseFail

\* A number literal at i: -? (0 | [1-9][0-9]*) (. [0-9]+)? ([eE] [+-]? [0-9]+)?
ParseNumber(s, i) ==
  LET i1 == IF s[i] = "-" THEN i + 1 ELSE i
      i2 == IF i1 <= Len(s) /\ s[i1] = "0" THEN i1 + 1 ELSE DigitsEnd(s, i1)
      hasFrac == i2 + 1 <= Len(s) /\ s[i2] = "." /\ IsDigit(s[i2 + 1])
      i3 == IF hasFrac THEN DigitsEnd(s, i2 + 1) ELSE i2
      e1 == IF i3 + 1 <= Len(s) /\ s[i3] \in { "e", "E" } /\ s[i3 + 1] \in { "+", "-" }
            THEN i3 + 2 ELSE i3 + 1
      hasExp == i3 <= Len(s) /\ s[i3] \in { "e", "E" } /\ e1 <= Len(s) /\ IsDigit(s[e1])
      i4 == IF hasExp THEN DigitsEnd(s, e1) ELSE i3
  IN  IF i2 = i1 THEN ParseFail
      ELSE ParseOk(JV("num", SubSeq(s, i, i4 - 1), << >>), i4)

\* The JSON literals.
L ==
  [
    true |->
      << "t", "r", "u", "e" >>,
    false |->
      << "f", "a", "l", "s", "e" >>,
    null |->
      << "n", "u", "l", "l" >> ]

RECURSIVE ParseValue(_, _)
RECURSIVE ParseMembers(_, _, _)
RECURSIVE ParseElements(_, _, _)

\* One JSON value starting at or after i.
ParseValue(s, i) ==
  LET j == SkipWs(s, i)
  IN  IF j > Len(s) THEN ParseFail
      ELSE IF s[j] = "{" THEN
        (IF SkipWs(s, j + 1) <= Len(s) /\ s[SkipWs(s, j + 1)] = "}"
         THEN ParseOk(EmptyObject, SkipWs(s, j + 1) + 1)
         ELSE ParseMembers(s, j + 1, << >>))
      ELSE IF s[j] = "[" THEN
        (IF SkipWs(s, j + 1) <= Len(s) /\ s[SkipWs(s, j + 1)] = "]"
         THEN ParseOk(JV("arr", << >>, << >>), SkipWs(s, j + 1) + 1)
         ELSE ParseElements(s, j + 1, << >>))
      ELSE IF s[j] = "\"" THEN ParseStringBody(s, j + 1, << >>)
      ELSE IF s[j] = "-" \/ IsDigit(s[j]) THEN ParseNumber(s, j)
      ELSE IF StartsAt(s, j, L.true) THEN ParseOk(JV("true", << >>, << >>), j + 4)
      ELSE IF StartsAt(s, j, L.false) THEN ParseOk(JV("false", << >>, << >>), j + 5)
      ELSE IF StartsAt(s, j, L.null) THEN ParseOk(JV("null", << >>, << >>), j + 4)
      ELSE ParseFail

\* The members of an object from i: "key" : value, separated by commas, to "}".
ParseMembers(s, i, acc) ==
  LET j == SkipWs(s, i)
  IN  IF j > Len(s) \/ s[j] # "\"" THEN ParseFail
      ELSE
        LET key == ParseStringBody(s, j + 1, << >>)
            c   == SkipWs(s, key.i)
        IN  IF ~key.ok \/ c > Len(s) \/ s[c] # ":" THEN ParseFail
            ELSE
              LET val  == ParseValue(s, c + 1)
                  d    == SkipWs(s, val.i)
                  acc2 == Append(acc, [ k |-> key.v.s, v |-> val.v ])
              IN  IF ~val.ok \/ d > Len(s) THEN ParseFail
                  ELSE IF s[d] = "}" THEN ParseOk(JObject(acc2), d + 1)
                  ELSE IF s[d] = "," THEN ParseMembers(s, d + 1, acc2)
                  ELSE ParseFail

\* The elements of an array from i, separated by commas, to "]".
ParseElements(s, i, acc) ==
  LET val  == ParseValue(s, i)
      d    == SkipWs(s, val.i)
      acc2 == Append(acc, [ k |-> << >>, v |-> val.v ])
  IN  IF ~val.ok \/ d > Len(s) THEN ParseFail
      ELSE IF s[d] = "]" THEN ParseOk(JV("arr", << >>, acc2), d + 1)
      ELSE IF s[d] = "," THEN ParseElements(s, d + 1, acc2)
      ELSE ParseFail

\* JSON.parse: the value of the whole text, or a failure (a SyntaxError).
JSONparse(raw) ==
  LET r == ParseValue(raw, 1)
  IN  IF r.ok /\ SkipWs(raw, r.i) > Len(raw) THEN r ELSE ParseFail

safeParseJson_MutThrows(raw) ==
  IF JSONparse(raw).ok THEN JSONparse(raw).v ELSE JUndefined

\* safeParseJson / safeJson / request.json().catch(() => ({})): the parsed
\* value, or the empty object when the text is not JSON.
safeParseJson(raw) ==
  IF JSONparse(raw).ok THEN JSONparse(raw).v ELSE EmptyObject

\* v?.key: the member's value (the last one of that name), else undefined.
Get(v, key) ==
  IF v.t = "obj" /\ \E n \in 1..Len(v.kv) : v.kv[n].k = key
  THEN v.kv[CHOOSE n \in 1..Len(v.kv) :
              v.kv[n].k = key /\ \A m \in (n + 1)..Len(v.kv) : v.kv[m].k # key].v
  ELSE JUndefined

\* JavaScript truthiness of a JSON value.
Truthy(v) ==
  CASE v.t = "str" -> v.s # << >>
    [] v.t = "num" -> \E n \in 1..Len(v.s) :
                         /\ IsDigit(v.s[n]) /\ v.s[n] # "0"
                         /\ \A m \in 1..n : v.s[m] \notin { "e", "E" }
    [] v.t \in { "obj", "arr", "true" } -> TRUE
    [] OTHER -> FALSE

OrElse_MutNoDefault(a, b) == a

\* a || b
OrElse(a, b) == IF Truthy(a) THEN a ELSE b

\* The literal texts of the programs, by name.
T ==
  [
    objectObject |-> << "[", "o", "b", "j", "e", "c", "t", " ", "O", "b", "j", "e", "c", "t", "]" >>,
    unknown |-> << "u", "n", "k", "n", "o", "w", "n" >>,
    preview |-> << "p", "r", "e", "v", "i", "e", "w" >>,
    SPR |-> << "S", "P", "R" >>,
    TASK |-> << "T", "A", "S", "K" >>,
    notionBase |-> << "h", "t", "t", "p", "s", ":", "/", "/", "w", "w", "w", ".", "n", "o", "t", "i", "o", "n", ".", "s", "o", "/" >>,
    true |-> L.true,
    sha1 |-> << "s", "h", "a", "1" >>,
    sha256 |-> << "s", "h", "a", "2", "5", "6" >>,
    finished |-> << "f", "i", "n", "i", "s", "h", "e", "d" >>,
    errored |-> << "e", "r", "r", "o", "r", "e", "d" >>,
    production |-> << "p", "r", "o", "d", "u", "c", "t", "i", "o", "n" >>,
    mainBranch |-> << "m", "a", "i", "n" >>,
    buildUrl |-> << "h", "t", "t", "p", "s", ":", "/", "/", "x", ".", "d", "e", "v", "/", "1" >>,
    previewBuildBold |-> << "ROCKET", " ", "*" >> \o << "P", "r", "e", "v", "i", "e", "w", " ", "b", "u", "i", "l", "d" >> \o << "*", " " >>,
    previewBuildPlain |-> << "ROCKET", " " >> \o << "P", "r", "e", "v", "i", "e", "w", " ", "b", "u", "i", "l", "d" >> \o << " " >>,
    on |-> << " ", "o", "n", " ", "BQ" >>,
    taskLabel |-> << "NL", "LINK", " ", "T", "a", "s", "k", ":", " " >>,
    profileLabel |-> << "NL", "TUBE", " ", "P", "r", "o", "f", "i", "l", "e", ":", " " >>,
    lineBreak |-> << "CTL" >>,
    http |-> << "h", "t", "t", "p" >>,
    schemeEnd |-> << ":", "/", "/" >>,
    www |-> << "w", "w", "w", "." >>,
    notionHost |-> << "n", "o", "t", "i", "o", "n", ".", "s", "o", "/" >>,
    prUrl |-> << "h", "t", "t", "p", "s", ":", "/", "/", "g", ".", "c", "o", "/", "p", "/", "1" >>,
    repo |-> << "o", "/", "r" >>,
    prLabel |-> << "P", "R", ":", " " >>,
    linkedTasks |-> << "L", "i", "n", "k", "e", "d", " ", "N", "o", "t", "i", "o", "n", " ", "T", "a", "s", "k", "s", ":" >>,
    fix |-> << "f", "i", "x" >>,
    see |-> << "s", "e", "e", " " >> ]

RECURSIVE ToText(_)
RECURSIVE JoinElements(_)
\* String(v), as a template literal renders a value.
ToText(v) ==
  CASE v.t \in { "str", "num" } -> v.s
    [] v.t = "obj" -> T.objectObject
    [] v.t = "arr" -> JoinElements(v.kv)
    [] v.t = "true" -> L.true
    [] v.t = "false" -> L.false
    [] v.t = "null" -> L.null
    [] OTHER -> << "u", "n", "d", "e", "f", "i", "n", "e", "d" >>

JoinElements(kv) ==
  IF kv = << >> THEN << >>
  ELSE (IF Head(kv).v.t \in { "null", "undef" } THEN << >> ELSE ToText(Head(kv).v))
       \o (IF Len(kv) > 1 THEN << "," >> ELSE << >>) \o JoinElements(Tail(kv))

\* The keys of the payload the handlers read.
K ==
  [
    status |-> << "s", "t", "a", "t", "u", "s" >>,
    event |-> << "e", "v", "e", "n", "t" >>,
    buildDetailsPageUrl |-> << "b", "u", "i", "l", "d", "D", "e", "t", "a", "i", "l", "s", "P", "a", "g", "e", "U", "r", "l" >>,
    build |-> << "b", "u", "i", "l", "d" >>,
    detailsPageUrl |-> << "d", "e", "t", "a", "i", "l", "s", "P", "a", "g", "e", "U", "r", "l" >>,
    gitRef |-> << "g", "i", "t", "R", "e", "f" >>,
    metadata |-> << "m", "e", "t", "a", "d", "a", "t", "a" >>,
    appVersion |-> << "a", "p", "p", "V", "e", "r", "s", "i", "o", "n" >>,
    commitMessage |-> << "c", "o", "m", "m", "i", "t", "M", "e", "s", "s", "a", "g", "e" >>,
    gitCommitMessage |-> << "g", "i", "t", "C", "o", "m", "m", "i", "t", "M", "e", "s", "s", "a", "g", "e" >>,
    buildProfile |-> << "b", "u", "i", "l", "d", "P", "r", "o", "f", "i", "l", "e" >>,
    appBuildProfile |-> << "a", "p", "p", "B", "u", "i", "l", "d", "P", "r", "o", "f", "i", "l", "e" >>,
    profile |-> << "p", "r", "o", "f", "i", "l", "e" >> ]

(***************************************************************************)
(* Task id extraction                                                      *)
(***************************************************************************)


\* Length of the match of /\b(?:SPR|TASK)-\d+\b/i that starts at i, or 0.
\* The digits are the whole run: a shorter run is followed by a digit, where
\* \b cannot hold.
TaskMatchLenAt(s, i) ==
  LET up == toUpperCase(s)
      n  == IF StartsAt(up, i, T.SPR) THEN 3
            ELSE IF StartsAt(up, i, T.TASK) THEN 4 ELSE 0
      d  == i + n + 1
      e  == DigitsEnd(s, d)
  IN  IF /\ n > 0
         /\ (i = 1 \/ ~IsWordChar(s[i - 1]))
         /\ i + n <= Len(s) /\ s[i + n] = "-"
         /\ e > d
         /\ (e > Len(s) \/ ~IsWordChar(s[e]))
      THEN e - i ELSE 0

extractTaskId_MutNoUpper(joined) ==
  IF \E i \in 1..Len(joined) : TaskMatchLenAt(joined, i) > 0
  THEN LET i == CHOOSE k \in 1..Len(joined) :
                  /\ TaskMatchLenAt(joined, k) > 0
                  /\ \A j \in 1..(k - 1) : TaskMatchLenAt(joined, j) = 0
       IN  SubSeq(joined, i, i + TaskMatchLenAt(joined, i) - 1)
  ELSE << >>

\* `joined.match(TASK_REGEX)`, then idMatch ? idMatch[0].toUpperCase() : '':
\* the first match, upper-cased, or the empty text.
extractTaskId(joined) ==
  IF \E i \in 1..Len(joined) : TaskMatchLenAt(joined, i) > 0
  THEN LET i == CHOOSE k \in 1..Len(joined) :
                  /\ TaskMatchLenAt(joined, k) > 0
                  /\ \A j \in 1..(k - 1) : TaskMatchLenAt(joined, j) = 0
       IN  toUpperCase(SubSeq(joined, i, i + TaskMatchLenAt(joined, i) - 1))
  ELSE << >>

\* pageId.replace(/-/g, ''): the text without its hyphens.
stripHyphens(s) == Concat(split(s, "-"))


\* `https://www.notion.so/${pageId.replace(/-/g, '')}`
notionUrlOf(pageId) == T.notionBase \o stripHyphens(pageId)

(***************************************************************************)
(* Senders' texts: JSON.stringify of the documents the model sends         *)
(***************************************************************************)

Quote(s) == << "\"" >> \o s \o << "\"" >>
Member(k, v) == Quote(k) \o << ":" >> \o v
RECURSIVE JoinComma(_)
JoinComma(ms) ==
  IF ms = << >> THEN << >>
  ELSE Head(ms) \o (IF Len(ms) > 1 THEN << "," >> ELSE << >>) \o JoinComma(Tail(ms))
Obj(ms) == << "{" >> \o JoinComma(ms) \o << "}" >>

(***************************************************************************)
(* The webhook handlers: state                                             *)
(***************************************************************************)

VARIABLES
  handler,    \* which variant runs: "worker" (src/src/worker.ts fetch),
              \* "pages" (onRequestPost) or "relay" (part_000 fetch)
  env,        \* the environment bindings (empty text: not set)
  request,    \* the inbound request: method, path, signature header, body
  pc,         \* the handler's position
  sigOk,      \* "unchecked", "skipped", or the signature check's result
  fields,     \* the values extracted from the parsed payload
  notionUrl,  \* the resolved Notion URL, or empty
  calls,      \* the outbound calls made so far, in order
  trace,      \* the handler's steps so far, in order
  response,   \* the response returned, or NoResponse
  wire        \* how the request came to be: who signed it, in which form,
              \* and whether one byte was changed on the way

hvars == << handler, env, request, pc, sigOk, fields, notionUrl, calls, trace, response, wire >>

\* The state of the pull-request linker.
VARIABLES
  environ,     \* GITHUB_TOKEN and NOTION_TOKEN of the process environment
  evt,         \* the event payload read from GITHUB_EVENT_PATH
  lpc,         \* where main() stands: "idle", "start", "load", "search",
               \* "annotate", "exited"
  refs,        \* what parse_task_refs returned: task_ids and notion_links
  pages,       \* the list `pages` of main(): pairs << page_id, url >>
  cursor,      \* the index the running for-loop stands at
  workspace,   \* per Notion page, the contents of its bulleted children
  requests,    \* the HTTP requests sent so far, with what each came to
  stdout,      \* the lines printed so far
  exit_code,    \* the exit status of the process, -1 while it runs
  deliveries   \* the runs that annotate one page at the same time: of each, where
               \* it stands and the children it has read

lvars == << environ, evt, lpc, refs, pages, cursor, workspace, requests, stdout, exit_code,
           deliveries >>

\* Bounds of the model.
NumSecrets == 2
MaxTaskNumber == 2

\* The request paths of the model.
P ==
  [
    root |->
      << "/" >>,
    webhook |->
      << "/", "a", "p", "i", "/", "e", "x", "p", "o", "-", "w", "e", "b", "h", "o", "o", "k" >>,
    other |->
      << "/", "x" >> ]
\* const HANDLED_PATHS = new Set(['/', '/api/expo-webhook'])
HANDLED_PATHS == { P.root, P.webhook }

\* The id of the page the workspace search returns when it finds one.
PageId == << "2", "5", "b", "6", "c", "a", "f", "c", "-", "5", "b", "5", "c", "-", "8", "0", "1", "f", "-", "b", "a", "0", "2", "-", "e", "a", "1", "7", "d", "3", "c", "c", "4", "b", "7", "7" >>

Digit(n) == fromCharCode(48 + n)
Secret(n) == << "k", "e", "y", Digit(n) >>
Secrets == { Secret(n) : n \in 1..NumSecrets }
\* A branch name and a commit message that mention task n.
BranchOf(n) == << "f", "/", "s", "p", "r", "-", Digit(n) >>
CommitOf(n) == << "f", "i", "x", " ", "T", "A", "S", "K", "-", Digit(n), "0", "." >>

\* The request bodies of the model, by name.
Body ==
  [
    empty |->
      Obj(<< >>),
    notJson |->
      << "o", "o", "p", "s" >>,
    production |->
      Obj(<< Member(K.status, Quote(T.finished)),
      Member(K.buildDetailsPageUrl, Quote(T.buildUrl)),
      Member(K.gitRef, Quote(T.mainBranch)),
      Member(K.metadata, Obj(<< Member(K.buildProfile, Quote(T.production)) >>)) >>),
    previewCommit |->
      Obj(<< Member(K.event, Quote(T.errored)),
      Member(K.metadata, Obj(<< Member(K.appBuildProfile, Quote(<< "P" >> \o Tail(T.preview))),
      Member(K.commitMessage, Quote(CommitOf(1))) >>)) >>),
    productionTask |->
      Obj(<< Member(K.gitRef, Quote(BranchOf(1))),
      Member(K.metadata, Obj(<< Member(K.profile, Quote(T.production)) >>)) >>),
    noProfile |->
      Obj(<< Member(K.gitRef, Quote(BranchOf(1))) >>),
    numericProfile |->
      Obj(<< Member(K.metadata, Obj(<< Member(K.profile, << "7" >>) >>)) >>) ]

Body_preview(n) ==
  Obj(<< Member(K.status, Quote(T.finished)),
         Member(K.gitRef, Quote(BranchOf(n))),
         Member(K.metadata, Obj(<< Member(K.buildProfile, Quote(T.preview)) >>)) >>)

\* The payloads the build service sends in the model, as JSON texts, and one
\* text that is not JSON.
Bodies ==
  { Body.empty, Body.notJson, Body.production, Body.previewCommit, Body.productionTask,
    Body.noProfile, Body.numericProfile }
  \cup { Body_preview(n) : n \in 1..MaxTaskNumber }

\* What a sender holding `secret` attaches to `body` as its signature header,
\* by form: nothing, a digest in one encoding behind its algorithm prefix
\* ("sha1=b64" is what the repository's test script sends:
\* `expo-signature: sha1=$(openssl dgst -sha1 -binary -hmac SECRET | base64)`),
\* a digest without prefix, or a value that is no digest.
SignatureHeader(form, body, secret) ==
  LET exp == computeHmacs(body, secret)
  IN  CASE form = "none" -> << >>
        [] form = "sha1=b64" -> T.sha1 \o << "=" >> \o exp.sha1b64
        [] form = "sha1=hex" -> T.sha1 \o << "=" >> \o exp.sha1hex
        [] form = "sha256=b64" -> T.sha256 \o << "=" >> \o exp.sha256b64
        [] form = "sha256=hex" -> T.sha256 \o << "=" >> \o exp.sha256hex
        [] form = "b64" -> exp.sha1b64
        [] form = "hex" -> exp.sha1hex
        [] OTHER -> T.sha1 \o << "=", "b", "o", "g", "u", "s" >>

DigestForms == { "sha1=b64", "sha1=hex", "sha256=b64", "sha256=hex", "b64", "hex" }
AllForms == DigestForms \cup { "none", "bogus" }

TokenValues == { << >>, << "t", "o", "k" >> }
FlagValues == { << >>, << "T" >> \o Tail(T.true) }

NoFields ==
  [ status |-> JUndefined, buildUrl |-> JUndefined, gitRef |-> JUndefined,
    commitMessage |-> JUndefined, profile |-> JUndefined, taskId |-> << >> ]

NoResponse == [ status |-> 0, error |-> "", ok |-> FALSE, mode |-> "" ]

\* json(obj, status): a JSON response; `new Response(null, {status})` has
\* neither error nor ok.
json(error, ok, mode, status) == [ status |-> status, error |-> error, ok |-> ok, mode |-> mode ]

\* The state of a handler about to run on request r in environment e.
Fresh(h, e, r, w) ==
  /\ handler = h
  /\ env = e
  /\ request = r
  /\ wire = w
  /\ pc = "route"
  /\ sigOk = "unchecked"
  /\ fields = NoFields
  /\ notionUrl = << >>
  /\ calls = << >>
  /\ trace = << >>
  /\ response = NoResponse

Untampered(k, form) == [ signedWith |-> k, form |-> form, tampered |-> "no", at |-> 0 ]

Environments(h) ==
  { e \in [ EXPO_WEBHOOK_SECRET : { << >> } \cup Secrets,
            NOTION_TOKEN : TokenValues,
            DISPATCH_TO_GITHUB : FlagValues,
            GH_REPO_DISPATCH_TOKEN : TokenValues,
            SLACK_WEBHOOK_URL : TokenValues ] :
      h = "pages" => e.DISPATCH_TO_GITHUB = << >> /\ e.GH_REPO_DISPATCH_TOKEN = << >> }

\* The methods and paths a request to handler h may carry: the Pages router
\* calls onRequestPost for POST only, and only the relay reads the path.
Targets(h) ==
  { t \in [ method : { "POST", "GET", "PUT" }, path : { P.root, P.webhook, P.other } ] :
      /\ h = "pages" => t.method = "POST"
      /\ h # "relay" => t.path = P.webhook }

\* Any handler, any environment, any request signed by the holder of the
\* first secret.
HandlerInit ==
  \E b \in Bodies, form \in { "none", "sha1=b64", "sha1=hex", "bogus" } :
    \E sig \in { SignatureHeader(form, b, Secret(1)) } :
      \E h \in { "worker", "pages", "relay" } :
        \E e \in Environments(h), t \in Targets(h) :
          Fresh(h, e,
                [ method |-> t.method, path |-> t.path, signature |-> sig, body |-> b ],
                Untampered(Secret(1), form))

(***************************************************************************)
(* The webhook handlers: steps                                             *)
(***************************************************************************)

Respond(r) == /\ response' = r
              /\ pc' = "responded"

\* Method and path handling, up to reading the raw body.
\*   worker: anything but POST is answered 405.
\*   pages:  onRequestPost has no check of its own.
\*   relay:  unknown path 404, GET 200 (health check), other methods 405,
\*           then the raw body is read first.
routeStatus_MutGetNotAllowed(h, method, path) ==
  IF h = "relay" /\ path \notin HANDLED_PATHS THEN 404
  ELSE IF h # "pages" /\ method # "POST" THEN 405
  ELSE 0

routeStatus_MutMethodBeforePath(h, method, path) ==
  IF h = "relay" /\ method = "GET" THEN 200
  ELSE IF h # "pages" /\ method # "POST" THEN 405
  ELSE IF h = "relay" /\ path \notin HANDLED_PATHS THEN 404
  ELSE 0

\* The status answered before the body is read, 0 when the request goes on:
\* the relay answers 404 off its paths and 200 to a GET, then (as the worker
\* does first) 405 to every other method but POST; onRequestPost is entered
\* for POST only and tests nothing.
routeStatus(h, method, path) ==
  IF h = "relay" /\ path \notin HANDLED_PATHS THEN 404
  ELSE IF h = "relay" /\ method = "GET" THEN 200
  ELSE IF h # "pages" /\ method # "POST" THEN 405
  ELSE 0

Route ==
  /\ pc = "route"
  /\ \E s \in {routeStatus(handler, request.method, request.path)} :
       IF s = 404
         THEN Respond(json("Not Found", FALSE, "", 404)) /\ UNCHANGED trace
       ELSE IF s = 200
         THEN Respond(json("", TRUE, "", 200)) /\ UNCHANGED trace
       ELSE IF s = 405
         THEN Respond(json("Method Not Allowed", FALSE, "", 405)) /\ UNCHANGED trace
       ELSE /\ pc' = "verify"
            /\ trace' = IF handler = "relay" THEN Append(trace, "read_body") ELSE trace
            /\ UNCHANGED response
  /\ UNCHANGED lvars /\ UNCHANGED << wire, handler, env, request, sigOk, fields, notionUrl, calls >>

checkSignature_MutAlwaysOk(h, body, secret, header) == TRUE

checkSignature_MutNeverOk(h, body, secret, header) == FALSE

\* The signature check of handler h on the raw body.
checkSignature(h, body, secret, header) ==
  IF h = "relay" THEN verifyAnyDigest(body, secret, header)
  ELSE verifyHmacSha1Base64(body, secret, header)

verificationRequired_MutAlways(e) == TRUE

\* `if (env.EXPO_WEBHOOK_SECRET)`: the check runs only when a secret is set.
verificationRequired(e) == e.EXPO_WEBHOOK_SECRET # << >>

\* 1) Signature verification, only when EXPO_WEBHOOK_SECRET is set: a failed
\* check is answered 401.  worker and pages read the raw text of a clone of
\* the request here.
VerifySignature ==
  /\ pc = "verify"
  /\ IF verificationRequired(env)
     THEN LET ok == checkSignature(handler, request.body, env.EXPO_WEBHOOK_SECRET,
                                   request.signature)
          IN  /\ sigOk' = (IF ok THEN "ok" ELSE "failed")
              /\ trace' = (IF handler = "relay" THEN trace ELSE Append(trace, "read_body"))
                          \o << "verify" >>
              /\ IF ok THEN pc' = "parse" /\ UNCHANGED response
                 ELSE Respond(json("Invalid signature", FALSE, "", 401))
     ELSE /\ sigOk' = "skipped"
          /\ pc' = "parse"
          /\ UNCHANGED << trace, response >>
  /\ UNCHANGED lvars /\ UNCHANGED << wire, handler, env, request, fields, notionUrl, calls >>

\* The payload fields of a parsed body, each with its fallbacks; only the
\* relay reads metadata.gitCommitMessage and a build profile.
payloadFields(h, body) ==
  LET meta == Get(body, K.metadata)
  IN  [ status |-> OrElse(OrElse(Get(body, K.status), Get(body, K.event)), JString(T.unknown)),
        buildUrl |-> OrElse(OrElse(Get(body, K.buildDetailsPageUrl),
                                   Get(Get(body, K.build), K.detailsPageUrl)), JString(<< >>)),
        gitRef |-> OrElse(OrElse(OrElse(Get(body, K.gitRef), Get(meta, K.gitRef)),
                                 Get(meta, K.appVersion)), JString(<< >>)),
        commitMessage |->
          IF h = "relay"
          THEN OrElse(OrElse(Get(meta, K.commitMessage), Get(meta, K.gitCommitMessage)),
                      JString(<< >>))
          ELSE OrElse(Get(meta, K.commitMessage), JString(<< >>)),
        profile |->
          IF h = "relay"
          THEN OrElse(OrElse(OrElse(Get(meta, K.buildProfile), Get(meta, K.appBuildProfile)),
                             Get(meta, K.profile)), JString(T.unknown))
          ELSE JUndefined,
        taskId |-> << >> ]

\* 2) Parse the payload (a text that is not JSON counts as {}) and read its
\* fields.  worker and pages read the request's own body here.
ParsePayload ==
  /\ pc = "parse"
  /\ \E parsed \in { safeParseJson(request.body) } :
       fields' = payloadFields(handler, parsed)
  /\ trace' = (IF handler = "relay" THEN trace ELSE Append(trace, "read_body")) \o << "parse" >>
  /\ pc' = IF handler = "relay" THEN "filter" ELSE "extract"
  /\ UNCHANGED lvars /\ UNCHANGED << wire, handler, env, request, sigOk, notionUrl, calls, response >>

isPreview_MutCaseSensitive(profile) == profile = T.preview

isPreview_MutAlways(profile) == TRUE

\* profile.toLowerCase() === 'preview'
isPreview(profile) == toLowerCase(profile) = T.preview

\* 3) relay only: anything but a preview build is answered 204 with no body.
\* A profile that is no string has no toLowerCase: the handler throws.
ProfileFilter ==
  /\ pc = "filter"
  /\ IF fields.profile.t # "str"
       THEN pc' = "threw" /\ UNCHANGED << trace, response >>
     ELSE IF ~isPreview(fields.profile.s)
       THEN Respond(json("", FALSE, "", 204)) /\ trace' = Append(trace, "filter")
     ELSE /\ pc' = "extract"
          /\ trace' = Append(trace, "filter")
          /\ UNCHANGED response
  /\ UNCHANGED lvars /\ UNCHANGED << wire, handler, env, request, sigOk, fields, notionUrl, calls >>

\* `${gitRef} ${commitMessage}`
joinedText(f) == ToText(f.gitRef) \o << " " >> \o ToText(f.commitMessage)

\* 4) Extract the task id from the git ref and the commit message.
ExtractTaskId ==
  /\ pc = "extract"
  /\ \E joined \in { joinedText(fields) } :
       fields' = [ fields EXCEPT !.taskId = extractTaskId(joined) ]
  /\ trace' = Append(trace, "extract")
  /\ pc' = "lookup"
  /\ UNCHANGED lvars /\ UNCHANGED << wire, handler, env, request, sigOk, notionUrl, calls, response >>

\* What an outbound fetch may come to: kind "throws" is a fetch that rejects
\* (no answer at all), else a response with its status.
Outcome(kind, status) == [ kind |-> kind, status |-> status ]
Threw == Outcome("throws", 0)

\* What the workspace search may answer: a page, no result, an error status,
\* a success status with a body that is not JSON, or no answer at all.
SearchOutcomes ==
  { Outcome("found", 200), Outcome("empty", 200), Outcome("http_error", 401),
    Outcome("bad_json", 200), Threw }

searchEscapes_MutAlwaysCaught(h, o) == FALSE

searchEscapes_MutEmptyAborts(h, o) ==
  o.kind = "empty" \/ (h = "pages" /\ o.kind \in { "throws", "bad_json" })

\* Whether search outcome o escapes handler h as an exception: worker wraps
\* the whole lookup in try/catch, relay catches the fetch and the body's
\* parse separately, pages catches nothing.
searchEscapes(h, o) == h = "pages" /\ o.kind \in { "throws", "bad_json" }

Call(to, outcome, text, payload) ==
  [ to |-> to, outcome |-> outcome, text |-> text, payload |-> payload ]

\* 5) The optional Notion lookup, made when a task id was found and
\* NOTION_TOKEN is set.
NotionLookup ==
  /\ pc = "lookup"
  /\ IF fields.taskId # << >> /\ env.NOTION_TOKEN # << >>
     THEN \E o \in SearchOutcomes :
            /\ calls' = Append(calls, Call("notion_search", o, fields.taskId, << >>))
            /\ trace' = Append(trace, "search")
            /\ notionUrl' = IF o.kind = "found" THEN notionUrlOf(PageId) ELSE << >>
            /\ pc' = IF searchEscapes(handler, o) THEN "threw" ELSE "dispatch"
     ELSE /\ pc' = "dispatch"
          /\ UNCHANGED << calls, trace, notionUrl >>
  /\ UNCHANGED lvars /\ UNCHANGED << wire, handler, env, request, sigOk, fields, response >>


slackText_MutTaskLineNeedsUrl(h, f, url) ==
  (IF h = "relay" THEN T.previewBuildPlain ELSE T.previewBuildBold)
  \o ToText(f.status)
  \o (IF Truthy(f.gitRef) THEN T.on \o ToText(f.gitRef) \o << "BQ" >> ELSE << >>)
  \o (IF Truthy(f.buildUrl) THEN << "NL", "PHONE", " " >> \o ToText(f.buildUrl) ELSE << >>)
  \o (IF f.taskId # << >> /\ url # << >>
      THEN T.taskLabel \o f.taskId \o << " ", "BULLET", " " >> \o url
      ELSE << >>)
  \o (IF Truthy(f.commitMessage) THEN << "NL", "MEMO", " " >> \o ToText(f.commitMessage) ELSE << >>)
  \o (IF h = "relay" THEN T.profileLabel \o ToText(f.profile) ELSE << >>)

\* The chat message: status always, every other line only when its value is
\* truthy; the relay adds the profile line.  "ROCKET", "PHONE", "LINK",
\* "BULLET", "MEMO" and "TUBE" stand for the emoji, "NL" for a line break.
slackText(h, f, url) ==
  (IF h = "relay" THEN T.previewBuildPlain ELSE T.previewBuildBold)
  \o ToText(f.status)
  \o (IF Truthy(f.gitRef) THEN T.on \o ToText(f.gitRef) \o << "BQ" >> ELSE << >>)
  \o (IF Truthy(f.buildUrl) THEN << "NL", "PHONE", " " >> \o ToText(f.buildUrl) ELSE << >>)
  \o (IF f.taskId # << >>
      THEN T.taskLabel \o f.taskId
           \o (IF url # << >> THEN << " ", "BULLET", " " >> \o url ELSE << >>)
      ELSE << >>)
  \o (IF Truthy(f.commitMessage) THEN << "NL", "MEMO", " " >> \o ToText(f.commitMessage) ELSE << >>)
  \o (IF h = "relay" THEN T.profileLabel \o ToText(f.profile) ELSE << >>)

\* client_payload of the repository_dispatch event.
dispatchPayload(h, f, url) ==
  << [ k |-> "status", v |-> f.status ], [ k |-> "buildUrl", v |-> f.buildUrl ],
     [ k |-> "branch", v |-> f.gitRef ], [ k |-> "commitMessage", v |-> f.commitMessage ],
     [ k |-> "taskId", v |-> JString(f.taskId) ], [ k |-> "notionUrl", v |-> JString(url) ] >>
  \o (IF h = "relay" THEN << [ k |-> "profile", v |-> f.profile ] >> ELSE << >>)

\* What the destinations answer in the model.
GitHubOutcomes == { Outcome("response", 204), Outcome("response", 401),
                    Outcome("response", 422), Threw }
SlackOutcomes == { Outcome("response", 200), Outcome("response", 404), Threw }
IsOk_MutAnyStatus(status) == TRUE

\* Response.ok: a status from 200 to 299.
IsOk(status) == status >= 200 /\ status <= 299

useDispatch_MutCaseSensitive(e) == e.DISPATCH_TO_GITHUB = T.true

\* (env.DISPATCH_TO_GITHUB || '').toLowerCase() === 'true'
useDispatch(e) == toLowerCase(e.DISPATCH_TO_GITHUB) = T.true

githubFailureStatus_Mut500(status) == 500

\* The status a failed GitHub dispatch is answered with: GitHub's own.
githubFailureStatus(status) == status

\* 6) Dispatch: GitHub repository_dispatch when DISPATCH_TO_GITHUB is
\* "true" (never in pages), else the Slack webhook.  The credential is
\* checked here, right before the call.
Dispatch ==
  /\ pc = "dispatch"
  /\ IF handler # "pages" /\ useDispatch(env)
     THEN IF env.GH_REPO_DISPATCH_TOKEN = << >>
          THEN /\ Respond(json("GH_REPO_DISPATCH_TOKEN missing", FALSE, "", 500))
               /\ trace' = Append(trace, "dispatch")
               /\ UNCHANGED calls
          ELSE \E o \in GitHubOutcomes :
                 /\ calls' = Append(calls, Call("github_dispatch", o, << >>,
                                                dispatchPayload(handler, fields, notionUrl)))
                 /\ trace' = trace \o << "dispatch", "github" >>
                 /\ IF o.kind = "throws" THEN pc' = "threw" /\ UNCHANGED response
                    ELSE IF ~IsOk(o.status)
                      THEN Respond(json("GitHub dispatch failed", FALSE, "",
                                        githubFailureStatus(o.status)))
                    ELSE Respond(json("", TRUE, "github", 200))
     ELSE IF env.SLACK_WEBHOOK_URL = << >>
          THEN /\ Respond(json("SLACK_WEBHOOK_URL missing", FALSE, "", 500))
               /\ trace' = Append(trace, "dispatch")
               /\ UNCHANGED calls
          ELSE \E o \in SlackOutcomes :
                 /\ calls' = Append(calls, Call("slack", o,
                                                slackText(handler, fields, notionUrl), << >>))
                 /\ trace' = trace \o << "dispatch", "slack" >>
                 /\ IF o.kind = "throws" THEN pc' = "threw" /\ UNCHANGED response
                    ELSE IF ~IsOk(o.status)
                      THEN Respond(json("Slack error", FALSE, "", 500))
                    ELSE Respond(json("", TRUE, IF handler = "pages" THEN "" ELSE "slack", 200))
  /\ UNCHANGED lvars /\ UNCHANGED << wire, handler, env, request, sigOk, fields, notionUrl >>

(***************************************************************************)
(* A request changed on the way                                            *)
(***************************************************************************)

\* The characters a changed byte may become.
MutChars == { "=", "x" }

\* Text s with the character at position i replaced by c.
ReplaceAt(s, i, c) == [ s EXCEPT ![i] = c ]

\* Before the handler runs, one byte of the body or of the signature header
\* is changed (once).
Tamper ==
  /\ pc = "route"
  /\ wire.tampered = "no"
  /\ \E c \in MutChars :
       \/ \E i \in 1..Len(request.body) :
            /\ request.body[i] # c
            /\ request' = [ request EXCEPT !.body = ReplaceAt(request.body, i, c) ]
            /\ wire' = [ wire EXCEPT !.tampered = "body", !.at = i ]
       \/ \E i \in 1..Len(request.signature) :
            /\ request.signature[i] # c
            /\ request' = [ request EXCEPT !.signature = ReplaceAt(request.signature, i, c) ]
            /\ wire' = [ wire EXCEPT !.tampered = "header", !.at = i ]
  /\ UNCHANGED << handler, env, pc, sigOk, fields, notionUrl, calls, trace, response >>
  /\ UNCHANGED lvars

(***************************************************************************)
(* The pull-request linker (link_pr_to_notion_task.py): texts               *)
(***************************************************************************)

\* The line break that joins title, body and branch.

\* \s of the regular expressions, for the characters of the model.
IsSpace(c) == c \in { " ", "CTL" }

RECURSIVE TextLess(_, _)
\* Python's < on str: by code point, a proper prefix first.
TextLess(a, b) ==
  IF a = << >> THEN b # << >>
  ELSE IF b = << >> THEN FALSE
  ELSE IF a[1] = b[1] THEN TextLess(Tail(a), Tail(b))
  ELSE charCodeAt[a[1]] < charCodeAt[b[1]]

RECURSIVE sorted(_)
\* sorted(set(...)): the texts of S in ascending order.
sorted(S) ==
  IF S = { } THEN << >>
  ELSE LET m == CHOOSE x \in S : \A y \in S \ { x } : TextLess(x, y)
       IN  << m >> \o sorted(S \ { m })

\* TASK_PREFIX = os.getenv("TASK_PREFIX", "TASK")
TASK_PREFIX == T.TASK

\* The length of the match of TASK_REGEX, \bTASK-\d+\b without regard to
\* case, that starts at position i of s; 0 when none starts there.
TaskRefLenAt(s, i) ==
  LET n == Len(TASK_PREFIX)
      d == i + n + 1
      e == DigitsEnd(s, d)
  IN  IF /\ StartsAt(toUpperCase(s), i, toUpperCase(TASK_PREFIX))
         /\ (i = 1 \/ ~IsWordChar(s[i - 1]))
         /\ i + n <= Len(s) /\ s[i + n] = "-"
         /\ e > d
         /\ (e > Len(s) \/ ~IsWordChar(s[e]))
      THEN e - i ELSE 0


\* [^\s)>\]]
IsUrlChar(c) == ~IsSpace(c) /\ c \notin { ")", ">", "]" }

\* The index after the run of URL characters that starts at i.
UrlEnd(s, i) ==
  IF \E k \in i..Len(s) : ~IsUrlChar(s[k])
  THEN CHOOSE k \in i..Len(s) : ~IsUrlChar(s[k]) /\ \A j \in i..(k - 1) : IsUrlChar(s[j])
  ELSE IF i > Len(s) THEN i ELSE Len(s) + 1

\* The length of the match of NOTION_URL_REGEX,
\* https?://(www\.)?notion\.so/[^\s)>\]]+ , that starts at position i of s;
\* 0 when none starts there.
NotionUrlLenAt(s, i) ==
  LET a == i + Len(T.http)
      b == IF a <= Len(s) /\ s[a] = "s" THEN a + 1 ELSE a
      c == b + Len(T.schemeEnd)
      d == IF StartsAt(s, c, T.www) THEN c + Len(T.www) ELSE c
      t == d + Len(T.notionHost)
      e == UrlEnd(s, t)
  IN  IF /\ StartsAt(s, i, T.http)
         /\ StartsAt(s, b, T.schemeEnd)
         /\ StartsAt(s, d, T.notionHost)
         /\ e > t
      THEN e - i ELSE 0

RECURSIVE finditerNotionUrls(_, _)
\* The matches of NOTION_URL_REGEX in s from position i on, left to right,
\* each search resuming after the previous match.
finditerNotionUrls(s, i) ==
  IF \E k \in i..Len(s) : NotionUrlLenAt(s, k) > 0
  THEN LET k == CHOOSE k \in i..Len(s) :
                  /\ NotionUrlLenAt(s, k) > 0
                  /\ \A j \in i..(k - 1) : NotionUrlLenAt(s, j) = 0
           n == NotionUrlLenAt(s, k)
       IN  { SubSeq(s, k, k + n - 1) } \cup finditerNotionUrls(s, k + n)
  ELSE { }

parse_task_refs_MutKeepsCase(title, body, branch) ==
  LET text == title \o T.lineBreak \o body \o T.lineBreak \o branch
  IN  [ task_ids |->
          sorted({ SubSeq(text, i, i + TaskRefLenAt(text, i) - 1) :
                     i \in { k \in 1..Len(text) : TaskRefLenAt(text, k) > 0 } }),
        notion_links |-> sorted(finditerNotionUrls(text, 1)) ]

\* parse_task_refs: the task ids (upper-cased) and the Notion links of
\* title, body and branch, each without duplicates and sorted.
parse_task_refs(title, body, branch) ==
  LET text == title \o T.lineBreak \o body \o T.lineBreak \o branch
  IN  [ task_ids |->
          sorted({ toUpperCase(SubSeq(text, i, i + TaskRefLenAt(text, i) - 1)) :
                     i \in { k \in 1..Len(text) : TaskRefLenAt(text, k) > 0 } }),
        notion_links |-> sorted(finditerNotionUrls(text, 1)) ]

AllHex(s) == \A i \in 1..Len(s) : IsHex(s[i])

\* ensure_uuid_hyphens: 32 hex digits (hyphens apart) in groups of
\* 8-4-4-4-12; any other text as it is.
ensure_uuid_hyphens(id32) ==
  LET s == stripHyphens(id32)
  IN  IF Len(s) # 32 \/ ~AllHex(s) THEN id32
      ELSE SubSeq(s, 1, 8) \o << "-" >> \o SubSeq(s, 9, 12) \o << "-" >> \o SubSeq(s, 13, 16)
           \o << "-" >> \o SubSeq(s, 17, 20) \o << "-" >> \o SubSeq(s, 21, 32)

\* Whether ([0-9a-fA-F]{32})(?:\?|#|/|$) matches at position i of url.
HexChunkAt(url, i) ==
  /\ i + 31 <= Len(url)
  /\ AllHex(SubSeq(url, i, i + 31))
  /\ (i + 32 > Len(url) \/ url[i + 32] \in { "?", "#", "/" })

\* page_id_from_notion_url: the first chunk of 32 hex digits that a "?", a
\* "#", a "/" or the end follows, lower-cased and hyphenated; the empty text
\* stands for None.
page_id_from_notion_url(url) ==
  IF \E i \in 1..Len(url) : HexChunkAt(url, i)
  THEN LET i == CHOOSE k \in 1..Len(url) :
                  HexChunkAt(url, k) /\ \A j \in 1..(k - 1) : ~HexChunkAt(url, j)
       IN  ensure_uuid_hyphens(toLowerCase(SubSeq(url, i, i + 31)))
  ELSE << >>

(***************************************************************************)
(* The pull-request linker: state and steps                                *)
(***************************************************************************)

NumPages == 2

\* The id of the n-th page of the workspace, as the Notion API spells it.
PageOf(n) == SubSeq(PageId, 1, Len(PageId) - 1) \o << Digit(n) >>
Pages == { PageOf(n) : n \in 1..NumPages }


\* The pull requests of the model: title, body and head branch.
PullRequest(title, body, ref) ==
  [ pull_request |-> TRUE, full_name |-> T.repo, number |-> 1, html_url |-> T.prUrl,
    title |-> title, body |-> body, ref |-> ref ]


\* The pull-request events of the model, by name.
PR ==
  [
    noRefs |->
      PullRequest(T.fix, << >>, T.mainBranch),
    tasks |->
      PullRequest(<< "T", "A", "S", "K", "-", "1", "2", " " >> \o T.fix, << >>,
      << "f", "/", "t", "a", "s", "k", "-", "7" >>),
    link |->
      PullRequest(T.fix, T.see \o T.notionBase \o << "T", "-" >> \o stripHyphens(PageOf(1)),
      T.mainBranch),
    taskAndLink |->
      PullRequest(<< "t", "a", "s", "k", "-", "7" >>,
      << "(" >> \o T.notionBase \o toUpperCase(stripHyphens(PageOf(1))) \o << ")" >>,
      T.mainBranch),
    hyphenLink |->
      PullRequest(T.fix, T.see \o T.notionBase \o PageOf(1), T.mainBranch) ]

Events ==
  { PR.noRefs, PR.tasks, PR.link, PR.taskAndLink, PR.hyphenLink,
    [ PR.tasks EXCEPT !.pull_request = FALSE ],
    [ PR.tasks EXCEPT !.full_name = << >> ] }

\* What a page may hold before the run: nothing, the bullet of this pull
\* request, or (first page only) the bullet of a pull request whose number
\* continues this one's.
Bullet(url) == T.prLabel \o url
Workspaces ==
  { w \in [ Pages -> { << >>, << Bullet(T.prUrl) >>, << Bullet(T.prUrl \o << "2" >>) >> } ] :
      \A p \in Pages : p # PageOf(1) => w[p] # << Bullet(T.prUrl \o << "2" >>) >> }

Line(kind, n) == [ kind |-> kind, n |-> n ]

LinkerFresh(e, ev, w) ==
  /\ environ = e
  /\ evt = ev
  /\ lpc = "start"
  /\ refs = [ task_ids |-> << >>, notion_links |-> << >> ]
  /\ pages = << >>
  /\ cursor = 0
  /\ workspace = w
  /\ requests = << >>
  /\ stdout = << >>
  /\ exit_code = -1
  /\ deliveries = << >>

\* No linker run: the state of the linker while a webhook handler is looked at.
LinkerIdle ==
  /\ environ = [ GITHUB_TOKEN |-> << >>, NOTION_TOKEN |-> << >> ]
  /\ evt = PR.noRefs
  /\ lpc = "idle"
  /\ refs = [ task_ids |-> << >>, notion_links |-> << >> ]
  /\ pages = << >>
  /\ cursor = 0
  /\ workspace = [ p \in Pages |-> << >> ]
  /\ requests = << >>
  /\ stdout = << >>
  /\ exit_code = -1
  /\ deliveries = << >>

\* die(msg): print the ::error:: line and exit 1.
die(msg) ==
  /\ stdout' = Append(stdout, Line(msg, 0))
  /\ exit_code' = 1
  /\ lpc' = "exited"

\* An exception nobody catches: the traceback, and exit status 1.
Uncaught ==
  /\ stdout' = Append(stdout, Line("Traceback", 0))
  /\ exit_code' = 1
  /\ lpc' = "exited"

\* main(), first lines: both tokens are required before anything else.
CheckTokens ==
  /\ lpc = "start"
  /\ IF environ.GITHUB_TOKEN = << >> THEN die("::error:: GITHUB_TOKEN missing")
     ELSE IF environ.NOTION_TOKEN = << >> THEN die("::error:: NOTION_TOKEN missing")
     ELSE lpc' = "load" /\ UNCHANGED << stdout, exit_code >>
  /\ UNCHANGED << environ, evt, refs, pages, cursor, workspace, requests >>
  /\ UNCHANGED << hvars, deliveries >>

\* The pairs << page_id, link >> of the links that carry a page id.
RECURSIVE pagesOfLinks(_)
pagesOfLinks(links) ==
  IF links = << >> THEN << >>
  ELSE LET pid == page_id_from_notion_url(Head(links))
       IN  (IF pid # << >> THEN << << pid, Head(links) >> >> ELSE << >>)
           \o pagesOfLinks(Tail(links))

\* load_event, extract_pr_info, extract_branch, parse_task_refs and the loop
\* over the direct links: no request is sent yet.
LoadEvent ==
  /\ lpc = "load"
  /\ IF ~evt.pull_request
       THEN die("::error:: Event payload has no pull_request object.")
            /\ UNCHANGED << refs, pages, cursor >>
     ELSE IF evt.full_name = << >>
       THEN die("::error:: repository.full_name missing in event.")
            /\ UNCHANGED << refs, pages, cursor >>
     ELSE LET r == parse_task_refs(evt.title, evt.body, evt.ref)
          IN  /\ refs' = r
              /\ pages' = pagesOfLinks(r.notion_links)
              /\ cursor' = 1
              /\ lpc' = "search"
              /\ UNCHANGED << stdout, exit_code >>
  /\ UNCHANGED << environ, evt, workspace, requests >>
  /\ UNCHANGED << hvars, deliveries >>

\* What POST /v1/search may come to: the first result is a page, no result,
\* an error status, a success whose body is no JSON, or no answer at all.
FoundPage(p) == [ kind |-> "found", status |-> 200, page |-> p ]
NoPage(kind, status) == [ kind |-> kind, status |-> status, page |-> << >> ]
LinkerSearchOutcomes ==
  { FoundPage(p) : p \in Pages }
  \cup { NoPage("empty", 200), NoPage("http_error", 401), NoPage("bad_json", 200),
         NoPage("throws", 0) }

searchRaises_MutStatusIgnored(o) == o.kind \in { "bad_json", "throws" }

\* notion_search_page raises on a request that fails, on resp.raise_for_status()
\* and on a body resp.json() cannot read.
searchRaises(o) == o.kind \in { "http_error", "bad_json", "throws" }

\* The loop over task_ids, one search each: a page found is appended with
\* its synthesized URL; what notion_search_page raises is caught nowhere.
SearchTask ==
  /\ lpc = "search"
  /\ cursor <= Len(refs.task_ids)
  /\ \E o \in LinkerSearchOutcomes :
       /\ requests' = Append(requests, Call("notion_search", o, refs.task_ids[cursor], << >>))
       /\ IF searchRaises(o)
            THEN Uncaught /\ UNCHANGED << pages, cursor >>
          ELSE /\ pages' = IF o.kind = "found"
                             THEN Append(pages, << o.page, notionUrlOf(o.page) >>)
                           ELSE pages
               /\ cursor' = cursor + 1
               /\ UNCHANGED << lpc, stdout, exit_code >>
  /\ UNCHANGED << environ, evt, refs, workspace >>
  /\ UNCHANGED << hvars, deliveries >>

uniqPages_MutNoMerge(ps) == ps

\* uniq[pid] = url for every pair, then list(uniq.items()): one pair per page
\* id, at the place of its first pair and with the URL of its last.
uniqPages(ps) ==
  LET firsts == { i \in 1..Len(ps) : \A j \in 1..(i - 1) : ps[j][1] # ps[i][1] }
      lastOf(i) == CHOOSE j \in 1..Len(ps) :
                     /\ ps[j][1] = ps[i][1]
                     /\ \A k \in (j + 1)..Len(ps) : ps[k][1] # ps[i][1]
      nth(n) == CHOOSE i \in firsts : Cardinality({ j \in firsts : j < i }) = n - 1
  IN  [ n \in 1..Cardinality(firsts) |-> << ps[nth(n)][1], ps[lastOf(nth(n))][2] >> ]

\* The de-duplication by page id, once every task id has been searched.
Dedupe ==
  /\ lpc = "search"
  /\ cursor > Len(refs.task_ids)
  /\ pages' = uniqPages(pages)
  /\ cursor' = 1
  /\ lpc' = "annotate"
  /\ UNCHANGED << environ, evt, refs, workspace, requests, stdout, exit_code >>
  /\ UNCHANGED << hvars, deliveries >>

\* `needle in hay` on str.
Contains(hay, needle) == \E i \in 1..(Len(hay) + 1) : StartsAt(hay, i, needle)

\* What a request to the Notion blocks API or to the GitHub comments API may
\* come to.
LinkerCallOutcomes == { Outcome("status", 200), Outcome("status", 403), Threw }

\* notion_append_pr_bullet for the page at the cursor: read the children
\* (nothing but status 200 counts, anything else reads as no children), return
\* when a bullet already contains the PR URL, else PATCH one bullet; a
\* refused PATCH is a warning.  A request that raises is caught nowhere.
AppendBullet ==
  /\ lpc = "annotate"
  /\ cursor <= Len(pages)
  /\ LET pid == pages[cursor][1]
     IN \E g \in LinkerCallOutcomes :
          LET got      == Call("notion_children", g, pid, << >>)
              children == IF g.kind = "status" /\ g.status = 200 THEN workspace[pid] ELSE << >>
          IN  IF g.kind = "throws"
                THEN /\ requests' = Append(requests, got)
                     /\ Uncaught
                     /\ UNCHANGED << workspace, cursor >>
              ELSE IF \E i \in 1..Len(children) : Contains(children[i], evt.html_url)
                THEN /\ requests' = Append(requests, got)
                     /\ cursor' = cursor + 1
                     /\ UNCHANGED << workspace, lpc, stdout, exit_code >>
              ELSE \E a \in LinkerCallOutcomes :
                     /\ requests' = requests \o
                                      << got, Call("notion_append", a, pid, Bullet(evt.html_url)) >>
                     /\ IF a.kind = "throws"
                          THEN Uncaught /\ UNCHANGED << workspace, cursor >>
                        ELSE /\ cursor' = cursor + 1
                             /\ IF a.status >= 300
                                  THEN /\ stdout' = Append(stdout, Line("::warning:: Failed to append PR link to Notion page", 0))
                                       /\ UNCHANGED workspace
                                ELSE /\ workspace' = [ workspace EXCEPT
                                                         ![pid] = Append(@, Bullet(evt.html_url)) ]
                                     /\ UNCHANGED stdout
                             /\ UNCHANGED << lpc, exit_code >>
  /\ UNCHANGED << environ, evt, refs, pages >>
  /\ UNCHANGED << hvars, deliveries >>

RECURSIVE commentLines(_)
\* One line "- url" per page.
commentLines(ps) ==
  IF ps = << >> THEN << >>
  ELSE T.lineBreak \o << "-", " " >> \o Head(ps)[2] \o commentLines(Tail(ps))

\* The comment main() composes.
commentBody(ps) == T.linkedTasks \o commentLines(ps)

commentRefused_MutNever(status) == FALSE

\* gh_post_pr_comment: `if resp.status_code >= 300` prints a warning.
commentRefused(status) == status >= 300

\* After the loop over the pages: with pages, the comment on the pull
\* request (a refused comment is a warning) and the line "Linked n ..."; with
\* none, the line "No Notion pages ...".  main() returns: exit status 0.
PostComment ==
  /\ lpc = "annotate"
  /\ cursor > Len(pages)
  /\ IF pages # << >>
     THEN \E o \in LinkerCallOutcomes :
            /\ requests' = Append(requests, Call("github_comment", o, commentBody(pages), << >>))
            /\ IF o.kind = "throws" THEN Uncaught
               ELSE /\ stdout' = (IF commentRefused(o.status)
                                    THEN Append(stdout, Line("::warning:: Failed to post PR comment", 0))
                                  ELSE stdout)
                                 \o << Line("Linked", Len(pages)) >>
                    /\ exit_code' = 0
                    /\ lpc' = "exited"
     ELSE /\ stdout' = Append(stdout, Line("No Notion pages or task IDs found to link.", 0))
          /\ exit_code' = 0
          /\ lpc' = "exited"
          /\ UNCHANGED requests
  /\ UNCHANGED << environ, evt, refs, pages, cursor, workspace >>
  /\ UNCHANGED << hvars, deliveries >>

\* How many times the workflow may run the linker on one event.
MaxDeliveries == 2

\* The runs begun so far: every run after the first left its mark in the log.
Deliveries == 1 + Cardinality({ i \in 1..Len(requests) : requests[i].to = "redelivery" })

\* The same event is delivered again after a run that ended (returned, died
\* or crashed): main() starts afresh in the same environment, on the
\* workspace the earlier runs left.  The log of requests keeps the earlier
\* runs, closed by a mark.
Redeliver ==
  /\ lpc = "exited"
  /\ Deliveries < MaxDeliveries
  /\ lpc' = "start"
  /\ refs' = [ task_ids |-> << >>, notion_links |-> << >> ]
  /\ pages' = << >>
  /\ cursor' = 0
  /\ exit_code' = -1
  /\ requests' = Append(requests, Call("redelivery", Outcome("status", 0), << >>, << >>))
  /\ UNCHANGED << environ, evt, workspace, stdout >>
  /\ UNCHANGED << hvars, deliveries >>

\* No webhook in flight: the state of the handlers while the linker runs.
HandlerIdle ==
  /\ handler = "worker"
  /\ env = [ EXPO_WEBHOOK_SECRET |-> << >>, NOTION_TOKEN |-> << >>,
             DISPATCH_TO_GITHUB |-> << >>, GH_REPO_DISPATCH_TOKEN |-> << >>,
             SLACK_WEBHOOK_URL |-> << >> ]
  /\ request = [ method |-> "GET", path |-> P.root, signature |-> << >>, body |-> << >> ]
  /\ wire = Untampered(Secret(1), "none")
  /\ pc = "idle"
  /\ sigOk = "unchecked"
  /\ fields = NoFields
  /\ notionUrl = << >>
  /\ calls = << >>
  /\ trace = << >>
  /\ response = NoResponse

\* Any tokens, any event of the model, any workspace.
LinkerInit ==
  /\ HandlerIdle
  /\ \E e \in [ GITHUB_TOKEN : TokenValues, NOTION_TOKEN : TokenValues ],
        ev \in Events, w \in Workspaces :
       LinkerFresh(e, ev, w)

LinkerNext == CheckTokens \/ LoadEvent \/ SearchTask \/ Dedupe \/ AppendBullet \/ PostComment

\* A pull request that names a page by its link (and one that names a task
\* as well), both tokens set, no page annotated yet.
RedeliverInit ==
  /\ HandlerIdle
  /\ \E ev \in { PR.link, PR.taskAndLink } :
       LinkerFresh([ GITHUB_TOKEN |-> << "t", "o", "k" >>, NOTION_TOKEN |-> << "t", "o", "k" >> ],
                   ev, [ p \in Pages |-> << >> ])

RedeliverNext == LinkerNext \/ Redeliver

\* Signed POSTs to the webhook path in every signature form, for every
\* handler and every secret the receiver may hold; the destinations are
\* configured for the chat.
SignedInit ==
  \E b \in { Body.empty, Body_preview(1) }, form \in AllForms :
    \E sig \in { SignatureHeader(form, b, Secret(1)) } :
      \E h \in { "worker", "pages", "relay" }, k \in Secrets :
        /\ LinkerIdle
        /\ Fresh(h,
              [ EXPO_WEBHOOK_SECRET |-> k, NOTION_TOKEN |-> << "t", "o", "k" >>,
                DISPATCH_TO_GITHUB |-> << >>, GH_REPO_DISPATCH_TOKEN |-> << >>,
                SLACK_WEBHOOK_URL |-> << "t", "o", "k" >> ],
              [ method |-> "POST", path |-> P.webhook, signature |-> sig, body |-> b ],
              Untampered(Secret(1), form))

vars == << hvars, lvars >>

Init == HandlerInit /\ LinkerIdle

Next ==
  \/ Route
  \/ VerifySignature
  \/ ParsePayload
  \/ ProfileFilter
  \/ ExtractTaskId
  \/ NotionLookup
  \/ Dispatch

Spec == Init /\ [][Next]_vars

TamperNext == Tamper \/ Next

\* The handlers on signed requests of which one byte may have been changed.
SpecTamper == SignedInit /\ [][TamperNext]_vars

\* One run of the pull-request linker.
SpecLinker == LinkerInit /\ [][LinkerNext]_vars

\* Either program: one webhook handled, or one run of the linker.
InitBoth == Init \/ LinkerInit
NextBoth == Next \/ LinkerNext
SpecBoth == InitBoth /\ [][NextBoth]_vars

\* The linker run on one event, and run again on it.
SpecRedeliver == RedeliverInit /\ [][RedeliverNext]_vars

(***************************************************************************)
(* Deliveries of one event at the same time                                *)
(***************************************************************************)

\* How many runs of the linker annotate the page at the same time.
ConcurrentDeliveries == 2

\* Each run is a process of its own and has come to notion_append_pr_bullet
\* for the page the pull request links; none has sent a request yet.
ConcurrentInit ==
  /\ HandlerIdle
  /\ environ = [ GITHUB_TOKEN |-> << "t", "o", "k" >>, NOTION_TOKEN |-> << "t", "o", "k" >> ]
  /\ evt = PR.link
  /\ lpc = "annotate"
  /\ refs = parse_task_refs(PR.link.title, PR.link.body, PR.link.ref)
  /\ pages = pagesOfLinks(parse_task_refs(PR.link.title, PR.link.body, PR.link.ref).notion_links)
  /\ cursor = 1
  /\ workspace \in Workspaces
  /\ requests = << >>
  /\ stdout = << >>
  /\ exit_code = -1
  /\ deliveries = [ d \in 1..ConcurrentDeliveries |-> [ at |-> "read", children |-> << >> ] ]

\* Run d calls notion_get_children: the children as they are now (none on a
\* status other than 200); with the URL among them the run returns, else it
\* goes on to the PATCH.  A request that raises ends the run.
ReadChildren ==
  \E d \in DOMAIN deliveries, g \in LinkerCallOutcomes :
    LET pid      == pages[cursor][1]
        children == IF g.kind = "status" /\ g.status = 200 THEN workspace[pid] ELSE << >>
    IN  /\ deliveries[d].at = "read"
        /\ requests' = Append(requests, Call("notion_children", g, pid, << >>))
        /\ deliveries' =
             [ deliveries EXCEPT ![d] =
                 IF g.kind = "throws" THEN [ at |-> "crashed", children |-> << >> ]
                 ELSE IF \E i \in 1..Len(children) : Contains(children[i], evt.html_url)
                   THEN [ at |-> "done", children |-> children ]
                 ELSE [ at |-> "append", children |-> children ] ]
        /\ UNCHANGED << environ, evt, lpc, refs, pages, cursor, workspace, stdout, exit_code >>
        /\ UNCHANGED hvars

\* Run d, having found no bullet with the URL, sends its PATCH: accepted, the
\* bullet is one more child of the page; refused, a warning is printed.
AppendBlock ==
  \E d \in DOMAIN deliveries, a \in LinkerCallOutcomes :
    LET pid == pages[cursor][1]
    IN  /\ deliveries[d].at = "append"
        /\ requests' = Append(requests, Call("notion_append", a, pid, Bullet(evt.html_url)))
        /\ deliveries' = [ deliveries EXCEPT ![d].at = IF a.kind = "throws" THEN "crashed" ELSE "done" ]
        /\ workspace' = IF a.kind = "status" /\ a.status < 300
                          THEN [ workspace EXCEPT ![pid] = Append(@, Bullet(evt.html_url)) ]
                        ELSE workspace
        /\ stdout' = IF a.kind = "status" /\ a.status >= 300
                       THEN Append(stdout, Line("::warning:: Failed to append PR link to Notion page", 0))
                     ELSE stdout
        /\ UNCHANGED << environ, evt, lpc, refs, pages, cursor, exit_code >>
        /\ UNCHANGED hvars

ConcurrentNext == ReadChildren \/ AppendBlock
SpecConcurrent == ConcurrentInit /\ [][ConcurrentNext]_vars

(***************************************************************************)
(* Identifier extraction on its own                                        *)
(***************************************************************************)

\* The texts a field may hold: none, one mention, the same task in two
\* spellings beside another task, a longer number, mentions inside words, a
\* code of the other prefix beside a task.
FieldTexts ==
  { << >>,
    << "T", "A", "S", "K", "-", "1" >>,
    << "t", "a", "s", "k", "-", "1", " ", "T", "A", "S", "K", "-", "2", " ", "T", "a", "s", "k", "-", "1" >>,
    << "T", "A", "S", "K", "-", "1", "2" >>,
    << "x", "T", "A", "S", "K", "-", "1", " ", "T", "A", "S", "K", "-", "1", "x", " ", "T", "A", "S", "K", "-" >>,
    << "s", "p", "r", "-", "3", " ", "t", "a", "s", "k", "-", "2" >> }

\* Title, body and branch are any three of the texts; nothing is extracted
\* yet.
ExtractInit ==
  /\ HandlerIdle
  /\ \E t \in FieldTexts, b \in FieldTexts, r \in FieldTexts :
       LinkerFresh([ GITHUB_TOKEN |-> << "t", "o", "k" >>, NOTION_TOKEN |-> << "t", "o", "k" >> ],
                   PullRequest(t, b, r), [ p \in Pages |-> << >> ])

\* parse_task_refs on the three fields (again, when it was called before).
ExtractRefs ==
  /\ lpc \in { "start", "extracted" }
  /\ refs' = parse_task_refs(evt.title, evt.body, evt.ref)
  /\ lpc' = "extracted"
  /\ UNCHANGED << environ, evt, pages, cursor, workspace, requests, stdout, exit_code >>
  /\ UNCHANGED << hvars, deliveries >>

\* The webhook handlers' extraction, on the branch as gitRef and the title
\* as commit message: the first match of `${gitRef} ${commitMessage}`.
ExtractId ==
  /\ lpc = "extracted"
  /\ pc = "idle"
  /\ \E f \in { [ NoFields EXCEPT !.gitRef = JString(evt.ref),
                                  !.commitMessage = JString(evt.title) ] } :
       fields' = [ f EXCEPT !.taskId = extractTaskId(joinedText(f)) ]
  /\ pc' = "extract"
  /\ UNCHANGED << wire, handler, env, request, sigOk, notionUrl, calls, trace, response >>
  /\ UNCHANGED lvars

\* The same three texts in another order of the fields, before they are
\* extracted from again.
Reorder ==
  /\ lpc = "extracted"
  /\ pc = "extract"
  /\ cursor = 0
  /\ \E o \in { << evt.body, evt.ref, evt.title >>, << evt.ref, evt.title, evt.body >>,
                << evt.title, evt.ref, evt.body >> } :
       evt' = [ evt EXCEPT !.title = o[1], !.body = o[2], !.ref = o[3] ]
  /\ cursor' = 1
  /\ pc' = "idle"
  /\ stdout' = << Line("task_ids", Len(refs.task_ids)) >>
  /\ requests' = << Call("task_ids", Outcome("status", 0), fields.taskId, refs.task_ids) >>
  /\ UNCHANGED << environ, refs, lpc, pages, workspace, exit_code, deliveries >>
  /\ UNCHANGED << wire, handler, env, request, sigOk, fields, notionUrl, calls, trace, response >>

ExtractNext == ExtractRefs \/ ExtractId \/ Reorder
SpecExtract == ExtractInit /\ [][ExtractNext]_vars

(***************************************************************************)
(* Properties of the webhook handlers                                      *)
(***************************************************************************)

InTrace(step) == \E i \in 1..Len(trace) : trace[i] = step

\* Every occurrence of step b in the trace has a step a before it.
Precedes(a, b) ==
  \A j \in 1..Len(trace) : trace[j] = b => \E i \in 1..(j - 1) : trace[i] = a

CallsTo(dest) == { i \in 1..Len(calls) : calls[i].to = dest }

\* The authentication rejection: `json({ error: 'Invalid signature' }, 401)`.
Rejected ==
  pc = "responded" /\ response.status = 401 /\ response.error = "Invalid signature"

\* The profile filter's answer: `new Response(null, { status: 204 })`.
Skipped == pc = "responded" /\ response.status = 204

\* The answer to a missing destination credential.
ConfigError ==
  /\ pc = "responded"
  /\ response.error \in { "SLACK_WEBHOOK_URL missing", "GH_REPO_DISPATCH_TOKEN missing" }

SecretSet == env.EXPO_WEBHOOK_SECRET # << >>

\* The request is as its sender signed it, with the secret the receiver holds
\* and in the form of the test script: sha1=<base64 HMAC-SHA1 of the body>.
SignedAsTestScript ==
  /\ wire.tampered = "no"
  /\ wire.form = "sha1=b64"
  /\ env.EXPO_WEBHOOK_SECRET = wire.signedWith

\* C1: a request whose signature header is computed exactly as the bundled
\* test script computes it (sha1= followed by the base64 HMAC-SHA1 of the raw
\* body under the configured secret) is never answered with the 401
\* authentication rejection.
C1_TestScriptSignatureAccepted == SignedAsTestScript => ~Rejected

\* C2: an invocation ends in the 401 authentication rejection exactly when a
\* secret is configured and the signature check has failed; with no secret
\* configured verification is skipped and no request is rejected, whatever
\* its signature header.
C2_RejectedIffSecretAndCheckFails ==
  /\ Rejected <=> (SecretSet /\ sigOk = "failed")
  /\ ~SecretSet => sigOk \in { "unchecked", "skipped" }
  /\ SecretSet => sigOk \in { "unchecked", "ok", "failed" }

C2_Witness ==
  /\ Rejected
  /\ request.signature # << >>
  /\ InTrace("verify")

\* C3: with a secret configured, a request that reaches verification with
\* its signature header absent or not verifying ends in the authentication
\* rejection with no outbound call made and the body never parsed; the raw
\* body is fully read before it is verified, and verified before it is
\* parsed.
C3_RejectionBeforeParsingAndCalls ==
  /\ (SecretSet /\ sigOk # "unchecked" /\ (request.signature = << >> \/ sigOk = "failed"))
       => (Rejected /\ calls = << >> /\ ~InTrace("parse"))
  /\ Precedes("read_body", "verify")
  /\ Precedes("read_body", "parse")
  /\ (SecretSet /\ InTrace("parse")) => (Precedes("verify", "parse") /\ sigOk = "ok")

C3_Witness ==
  /\ SecretSet
  /\ request.signature = << >>
  /\ Rejected
  /\ calls = << >>
  /\ trace = << "read_body", "verify" >>

\* The length of the algorithm label a signature of the given form carries
\* before its first "=".
PrefixLen(form) ==
  CASE form \in { "sha1=b64", "sha1=hex" } -> Len(T.sha1)
    [] form \in { "sha256=b64", "sha256=hex" } -> Len(T.sha256)
    [] OTHER -> 0

\* The request left its sender with a digest of its body under the secret
\* the receiver holds.
ValidlySigned ==
  /\ wire.form \in DigestForms
  /\ env.EXPO_WEBHOOK_SECRET = wire.signedWith

\* C4 (as stated): with a secret configured, a change of any single byte of
\* the body or of the signature header of a validly signed request makes
\* verification fail.
C4_AnyByteChangeRejected ==
  (ValidlySigned /\ wire.tampered # "no" /\ sigOk # "unchecked") => Rejected

\* C4 (amended): with a secret configured, a change of any single byte of the
\* body, or of any single byte of the signature header from its first "=" on
\* (of the whole header when it carries no algorithm label), makes
\* verification of a validly signed request fail; a change within the
\* algorithm label is not covered, the label being discarded unread.
C4_BodyOrDigestByteChangeRejected ==
  ( /\ ValidlySigned
    /\ sigOk # "unchecked"
    /\ \/ wire.tampered = "body"
       \/ wire.tampered = "header" /\ wire.at > PrefixLen(wire.form) )
    => (Rejected /\ sigOk = "failed")

C4_Witness ==
  /\ handler = "relay"
  /\ ValidlySigned
  /\ wire.form = "sha1=hex"
  /\ wire.tampered = "header"
  /\ wire.at = Len(request.signature)
  /\ Rejected

\* The build profile the payload declares, with the fallbacks and the default
\* of the profile-filtering handler.
DeclaredProfile == payloadFields("relay", safeParseJson(request.body)).profile

\* The declared profile is the text "preview" in any letter case.
DeclaresPreview(p) == p.t = "str" /\ toLowerCase(p.s) = T.preview

Filtered == InTrace("parse") /\ pc # "filter"

\* C5 (as stated): a verified event is answered as skipped (2xx, no outbound
\* call) exactly when its declared build profile is not "preview", and no
\* event with another profile reaches extraction, search or dispatch.
C5_SkippedIffProfileMismatch ==
  Filtered =>
    /\ Skipped <=> ~DeclaresPreview(DeclaredProfile)
    /\ ~DeclaresPreview(DeclaredProfile) => (~InTrace("extract") /\ calls = << >>)

\* C5 (amended): in the profile-filtering handler (the fetch with
\* HANDLED_PATHS) a verified event is answered 204 with no outbound call
\* exactly when its declared build profile is a text other than "preview" in
\* any letter case, a profile that is no text makes the handler throw, and no
\* event with a profile other than "preview" reaches extraction, search or
\* dispatch; the other two handlers read no profile and skip nothing.
C5_OnlyRelaySkipsNonPreview ==
  /\ (handler = "relay" /\ Filtered) =>
       /\ Skipped <=> (DeclaredProfile.t = "str" /\ ~DeclaresPreview(DeclaredProfile))
       /\ DeclaredProfile.t # "str" => pc = "threw"
       /\ ~DeclaresPreview(DeclaredProfile) => (~InTrace("extract") /\ calls = << >>)
  /\ handler # "relay" => ~Skipped

C5_Witness ==
  /\ handler = "relay"
  /\ sigOk = "ok"
  /\ fields.profile = JString(T.production)
  /\ Skipped
  /\ calls = << >>

DispatchCalls == CallsTo("slack") \cup CallsTo("github_dispatch")

\* C6: an event that reaches the dispatch step makes exactly one of the chat
\* call and the CI call: never both, never neither.
C6_ExactlyOneDestinationCalled ==
  /\ ~(CallsTo("slack") # { } /\ CallsTo("github_dispatch") # { })
  /\ InTrace("dispatch") => Cardinality(DispatchCalls) = 1

\* The workspace search was made and failed: an error status, a body that is
\* no JSON, or no answer.
SearchFailed ==
  \E i \in CallsTo("notion_search") : calls[i].outcome.kind \notin { "found", "empty" }

\* C8: a failed workspace search never produces an error and never keeps the
\* dispatch step from running.
C8_SearchFailureNeverPropagates ==
  SearchFailed => (pc = "dispatch" \/ InTrace("dispatch"))

\* The destination answered the dispatch with a non-2xx status.
DispatchRefused(dest) ==
  \E i \in CallsTo(dest) : calls[i].outcome.kind # "throws" /\ ~IsOk(calls[i].outcome.status)

\* C9 (as stated): every response has a status among 200, 204, 401, 405 and
\* 500, and a failed dispatch or a missing configuration is answered 500.
C9_StatusAmongFive ==
  pc = "responded" =>
    /\ response.status \in { 200, 204, 401, 405, 500 }
    /\ (ConfigError \/ DispatchRefused("slack") \/ DispatchRefused("github_dispatch"))
         => response.status = 500

\* C9 (amended): every response has a status among 200, 204, 401, 404, 405
\* and 500 or the status the CI destination answered; a failed chat dispatch
\* and a missing configuration are answered 500, a failed CI dispatch with
\* the CI destination's own status, and only an unhandled path with 404.
C9_StatusAmongSixOrRelayed ==
  pc = "responded" =>
    /\ \/ response.status \in { 200, 204, 401, 404, 405, 500 }
       \/ DispatchRefused("github_dispatch")
    /\ (ConfigError \/ DispatchRefused("slack")) => response.status = 500
    /\ DispatchRefused("github_dispatch") =>
         \E i \in CallsTo("github_dispatch") : response.status = calls[i].outcome.status
    /\ response.status = 404 =>
         \/ handler = "relay" /\ request.path \notin HANDLED_PATHS
         \/ DispatchRefused("github_dispatch")

C9_Witness ==
  /\ pc = "responded"
  /\ DispatchRefused("github_dispatch")
  /\ response.status = 422

\* C10: a missing destination credential is answered with the configuration
\* error before any outbound call, the workspace search included.
C10_ConfigErrorBeforeAnyCall == ConfigError => calls = << >>

\* The handler is over: it answered, or an exception left it.
HandlerDone == pc \in { "responded", "threw" }

\* The event passed verification and filtering, and no record was resolved:
\* no task id, no search, or a search that gave no page.
NoRecordResolved == InTrace("extract") /\ notionUrl = << >>

\* The destination the environment chooses, and whether its credential is set.
ChosenDestination ==
  IF handler # "pages" /\ toLowerCase(env.DISPATCH_TO_GITHUB) = T.true
    THEN "github_dispatch" ELSE "slack"
ChosenCredential ==
  IF ChosenDestination = "slack" THEN env.SLACK_WEBHOOK_URL ELSE env.GH_REPO_DISPATCH_TOKEN

\* The search of onRequestPost ended in an exception (a request that failed,
\* a body that is no JSON).
PagesSearchThrew ==
  /\ handler = "pages"
  /\ \E i \in CallsTo("notion_search") : calls[i].outcome.kind \in { "throws", "bad_json" }

\* C11 (as stated): every request whose method is not POST is answered with
\* 405, with no signature verification, no parsing and no outbound call.
C11_NonPostAnswered405 ==
  (request.method # "POST" /\ pc = "responded")
    => /\ response.status = 405
       /\ sigOk = "unchecked" /\ trace = << >> /\ calls = << >>

\* C11 (amended): a request whose method is not POST never reaches signature
\* verification, parsing or an outbound call; the worker answers it with 405,
\* and the relay answers 404 off its paths, 200 to a GET on one of its paths
\* and 405 to any other method.
C11_NonPostNeverProcessed ==
  request.method # "POST"
    => /\ pc \in { "idle", "route", "responded" }
       /\ sigOk = "unchecked" /\ trace = << >> /\ calls = << >>
       /\ pc = "responded" =>
            response.status =
              IF handler = "relay" /\ request.path \notin { P.root, P.webhook } THEN 404
              ELSE IF handler = "relay" /\ request.method = "GET" THEN 200
              ELSE 405

C11_Witness ==
  /\ handler = "relay" /\ request.method = "GET" /\ request.path = P.webhook
  /\ pc = "responded" /\ response.status = 200 /\ response.ok

\* The workspace search was made for the matched short code and answered
\* with no result.
SearchGaveNothing ==
  \E i \in CallsTo("notion_search") : calls[i].outcome.kind = "empty"

\* "Task: ", the words that open the task-link line of the chat message.
TaskWords == << "T", "a", "s", "k", ":", " " >>

\* C13 (as stated): when the search returns no result for a matched short
\* code, no record is resolved and the message sent has no task-link line at
\* all (no "Task: " is rendered).
C13_NoTaskLineWithoutRecord ==
  SearchGaveNothing =>
    /\ notionUrl = << >>
    /\ \A i \in CallsTo("slack") : ~Contains(calls[i].text, TaskWords)

\* C13 (amended): when the search returns no result for a matched short
\* code, no record is resolved and the message sent still has its task line,
\* "Task: " and the short code, only without the bullet and the record's URL.
C13_TaskLineWithoutLink ==
  SearchGaveNothing =>
    /\ notionUrl = << >>
    /\ fields.taskId # << >>
    /\ \A i \in CallsTo("slack") :
         /\ Contains(calls[i].text, << "NL", "LINK", " " >> \o TaskWords \o fields.taskId)
         /\ ~Contains(calls[i].text, << "BULLET" >>)
         /\ ~Contains(calls[i].text, T.notionBase)

C13_Witness ==
  /\ SearchGaveNothing
  /\ pc = "responded" /\ response.status = 200
  /\ \E i \in CallsTo("slack") : Contains(calls[i].text, TaskWords \o << "S", "P", "R", "-", "1" >>)

\* C14: a validly signed request whose body is {} has every field at its
\* default, is dispatched in notify mode all the same, and the message sent
\* is the status placeholder "unknown" and nothing else.
C14_EmptyObjectDispatchedMinimal ==
  ( /\ ValidlySigned /\ wire.tampered = "no"
    /\ request.method = "POST" /\ request.path = P.webhook
    /\ request.body = Body.empty
    /\ ChosenDestination = "slack" /\ env.SLACK_WEBHOOK_URL # << >>
    /\ HandlerDone )
  => /\ fields.taskId = << >>
     /\ Cardinality(CallsTo("slack")) = 1
     /\ \A i \in CallsTo("slack") :
          calls[i].text \in { T.previewBuildBold \o T.unknown, T.previewBuildPlain \o T.unknown }

\* The body of the request is no JSON text.
BodyNotJson == ~JSONparse(request.body).ok

\* The fields as they are read off {}: the placeholder for the status (and,
\* in the relay, for the profile), the empty text for the others.
DefaultFields ==
  [ status |-> JString(T.unknown), buildUrl |-> JString(<< >>), gitRef |-> JString(<< >>),
    commitMessage |-> JString(<< >>),
    profile |-> IF handler = "relay" THEN JString(T.unknown) ELSE JUndefined,
    taskId |-> << >> ]

\* C20: a body that is not valid JSON is read as {}: parsing brings about no
\* error response and no exception, every field has its default, and the
\* handler goes on to the filter (the relay, which skips the event there) or
\* to the dispatch.
C20_InvalidJsonReadAsEmptyObject ==
  (BodyNotJson /\ InTrace("parse")) =>
    /\ fields = DefaultFields
    /\ CallsTo("notion_search") = { }
    /\ pc \in { "filter", "extract", "lookup", "dispatch", "responded", "threw" }
    /\ pc = "threw" => DispatchCalls # { }
    /\ pc = "responded" =>
         IF handler = "relay" THEN response.status = 204 /\ InTrace("filter")
         ELSE InTrace("dispatch")

\* The text "oops", sent to the worker, has gone out to the chat as an event
\* of unknown status.
C20_Witness ==
  /\ request.body = Body.notJson /\ BodyNotJson
  /\ handler = "worker"
  /\ pc = "responded" /\ response.status = 200
  /\ \E i \in CallsTo("slack") : calls[i].text = T.previewBuildBold \o T.unknown

\* The header from the character after its first "=" to its end.
AfterFirstEquals(header) ==
  LET i == CHOOSE k \in 1..Len(header) :
             header[k] = "=" /\ \A j \in 1..(k - 1) : header[j] # "="
  IN  SubSeq(header, i + 1, Len(header))

\* The digests handler h accepts for the body under the secret.
ExpectedDigests(h, body, secret) ==
  IF h = "relay"
    THEN { computeHmacs(body, secret).sha1b64, computeHmacs(body, secret).sha1hex,
           computeHmacs(body, secret).sha256b64, computeHmacs(body, secret).sha256hex }
  ELSE { bytesToB64(Hmac(Sha1Bytes, secret, body)) }

\* C22: when the signature header contains a "=", what is compared with the
\* expected digest is everything after the first "=", later "=" included:
\* the check succeeds exactly when that rest of the header is an expected
\* digest.
C22_WholeRestAfterFirstEqualsCompared ==
  (sigOk \in { "ok", "failed" } /\ includes(request.signature, "=")) =>
    (sigOk = "ok" <=>
       AfterFirstEquals(request.signature)
         \in ExpectedDigests(handler, request.body, env.EXPO_WEBHOOK_SECRET))

\* The comparisons of the signature check: the provided value against each
\* digest the handler expects.
Comparisons ==
  { [ a |-> providedOf(request.signature), b |-> e ] :
      e \in ExpectedDigests(handler, request.body, env.EXPO_WEBHOOK_SECRET) }

\* C24: the comparison of the digests is true exactly when the provided and
\* the expected text are equal, and it does not stop at the first
\* difference: it examines every position of two texts of one length (none
\* when the lengths differ), wherever they first differ.
C24_ComparisonExactAndFullLength ==
  sigOk \in { "ok", "failed" } =>
    /\ \A c \in Comparisons :
         /\ timingSafeEqRun(c.a, c.b).result <=> (c.a = c.b)
         /\ timingSafeEqRun(c.a, c.b).examined = IF Len(c.a) = Len(c.b) THEN Len(c.b) ELSE 0
    /\ sigOk = "ok" <=> \E c \in Comparisons : timingSafeEqRun(c.a, c.b).result

\* A hex digest changed in its first character: rejected, after all forty
\* positions were examined.
C24_Witness ==
  /\ handler = "relay" /\ sigOk = "failed"
  /\ wire.form = "sha1=hex" /\ wire.tampered = "header" /\ wire.at = Len(T.sha1) + 2
  /\ \E c \in Comparisons :
       /\ Len(c.a) = Len(c.b) /\ c.a # c.b /\ c.a[1] # c.b[1]
       /\ SubSeq(c.a, 2, Len(c.a)) = SubSeq(c.b, 2, Len(c.b))
       /\ timingSafeEqRun(c.a, c.b).examined = 2 * Sha1Bytes


\* C28: where several digest algorithms are accepted (the profile-filtering
\* fetch), every comparison with a SHA-256 digest is made before any
\* comparison with a SHA-1 digest.
C28_StrongestDigestComparedFirst ==
  handler = "relay" /\ sigOk \in { "ok", "failed" } =>
    LET made == comparisonsMade(request.body, env.EXPO_WEBHOOK_SECRET, request.signature)
    IN  \A i, j \in 1..Len(made) :
          made[i].alg = "sha256" /\ made[j].alg = "sha1" => i < j


\* The response is the success answer: status 200 with ok: true.
Succeeded == response.status = 200 /\ response.ok

\* C29 (as stated): the success answer is returned only after exactly one
\* call to the configured destination was made and answered with a success
\* status.
C29_SuccessOnlyAfterOneSuccessfulCall ==
  Succeeded =>
    /\ Cardinality(DispatchCalls) = 1
    /\ \A i \in DispatchCalls :
         /\ calls[i].to = ChosenDestination
         /\ calls[i].outcome.kind = "response"
         /\ calls[i].outcome.status >= 200 /\ calls[i].outcome.status <= 299

\* C29 (amended): the success answer to a POST is returned only after exactly
\* one call to the configured destination was made and answered with a success
\* status; the health check of the profile-filtering fetch answers a GET with
\* the success answer and calls nothing.
C29_PostSuccessOnlyAfterOneSuccessfulCall ==
  Succeeded =>
    IF request.method = "GET"
      THEN handler = "relay" /\ calls = << >>
    ELSE /\ request.method = "POST"
         /\ Cardinality(DispatchCalls) = 1
         /\ \A i \in DispatchCalls :
              /\ i = Len(calls)
              /\ calls[i].to = ChosenDestination
              /\ calls[i].outcome.kind = "response"
              /\ calls[i].outcome.status >= 200 /\ calls[i].outcome.status <= 299

\* A webhook answered with success after the search found a page and GitHub
\* accepted the one dispatch.
C29_Witness ==
  /\ Succeeded /\ request.method = "POST"
  /\ Len(calls) = 2
  /\ calls[1].to = "notion_search" /\ calls[1].outcome.kind = "found"
  /\ calls[2].to = "github_dispatch" /\ calls[2].outcome = Outcome("response", 204)

(***************************************************************************)
(* Properties of the pull-request linker                                   *)
(***************************************************************************)

\* The comment on the pull request was sent and failed: no answer, or a
\* status that is no success.
CommentFailed ==
  \E i \in 1..Len(requests) :
    /\ requests[i].to = "github_comment"
    /\ (requests[i].outcome.kind = "throws" \/ requests[i].outcome.status >= 300)

Printed(kind) == \E i \in 1..Len(stdout) : stdout[i].kind = kind

\* C7: a failed call to the chosen destination (here the review-tool
\* comment of the linker) ends the invocation with an explicit error: the run
\* does not exit with status 0, nor report the pages as linked.
C7_FailedCommentEndsInError ==
  (CommentFailed /\ lpc = "exited") => (exit_code # 0 /\ ~Printed("Linked"))

(***************************************************************************)
(* Properties of both programs                                             *)
(***************************************************************************)

\* The linker's run came to its end through main()'s last lines.
LinkerReturned == lpc = "exited" /\ exit_code = 0

BlocksWithUrl(p) == { i \in 1..Len(workspace[p]) : Contains(workspace[p][i], evt.html_url) }

\* The requests of the run in progress: those after the last mark.
ThisRun ==
  { i \in 1..Len(requests) :
      \A j \in i..Len(requests) : requests[j].to # "redelivery" }

\* The annotate calls made for page p so far, each opened by its read of the
\* children.
AnnotateCalls(p) ==
  { i \in 1..Len(requests) : requests[i].to = "notion_children" /\ requests[i].text = p }

\* C15: annotation is idempotent: after any number of annotate calls with the
\* same page and URL the page holds one block with that URL, every call after
\* the one that wrote it writes nothing (stated here as its half that no
\* page ever holds a second block with the URL).
C15_NoSecondBlockWithUrl ==
  \A p \in Pages : AnnotateCalls(p) # { } => Cardinality(BlocksWithUrl(p)) <= 1

\* The earlier run wrote its block on page p and stopped at the comment: the
\* request for the comment raised, the last thing before the mark.
StoppedBeforeDispatch(p) ==
  \E m \in 2..Len(requests) :
    /\ requests[m].to = "redelivery"
    /\ requests[m - 1].to = "github_comment" /\ requests[m - 1].outcome.kind = "throws"
    /\ \E i \in 1..(m - 1) :
         /\ requests[i].to = "notion_append" /\ requests[i].text = p
         /\ requests[i].outcome.kind = "status" /\ requests[i].outcome.status < 300

\* Every request of the run in progress was answered, the searches with a
\* readable success: no exception has cut the run short.
RunAnswered ==
  \A i \in ThisRun : requests[i].outcome.kind \in { "found", "empty", "status" }

\* C16: when a run stopped after annotating a page and before dispatching,
\* the run on the re-delivered event finds the annotation, writes no second
\* one, and still attempts the dispatch (the comment).
C16_RedeliverySkipsAndDispatches ==
  \A p \in Pages :
    (StoppedBeforeDispatch(p) /\ RunAnswered /\ lpc = "exited") =>
      /\ \A i \in ThisRun : ~(requests[i].to = "notion_append" /\ requests[i].text = p)
      /\ \E i \in ThisRun : requests[i].to = "github_comment"

\* The annotation of some page failed: the read of its children or the
\* append was refused, or raised.
AnnotationFailed ==
  \E i \in 1..Len(requests) :
    /\ requests[i].to \in { "notion_children", "notion_append" }
    /\ (requests[i].outcome.kind = "throws" \/ requests[i].outcome.status >= 300)

\* C17: a failure while annotating one page (an error status, a permission
\* denial, an exception raised by the read or by the append) is no more than
\* a warning: the run does not end there, every other page still has its
\* annotate call and the comment is still sent.
C17_AnnotationFailureIsWarning ==
  (AnnotationFailed /\ lpc = "exited") =>
    /\ \A n \in 1..Len(pages) : AnnotateCalls(pages[n][1]) # { }
    /\ \E i \in 1..Len(requests) : requests[i].to = "github_comment"

(***************************************************************************)
(* Properties of the merge by page id                                      *)
(***************************************************************************)

\* The ids the references have resolved to: those of the direct links, and
\* those of the pages the searches found.
ResolvedIds ==
  ({ page_id_from_notion_url(refs.notion_links[n]) : n \in 1..Len(refs.notion_links) }
     \ { << >> })
  \cup { requests[i].outcome.page :
           i \in { j \in 1..Len(requests) :
                     requests[j].to = "notion_search" /\ requests[j].outcome.kind = "found" } }

\* The lines "- url" of a comment: its line breaks.
CommentLines(text) == Cardinality({ n \in 1..Len(text) : << text[n] >> = T.lineBreak })

\* C18: references that resolve to the same page id, by a direct link or by
\* a search, are merged into one record before the annotation and the
\* comment: the list to annotate has each resolved id once, a page has one
\* annotate call, and the comment has one line for it.
C18_SameIdMergedIntoOneRecord ==
  /\ lpc = "annotate" =>
       /\ { pages[n][1] : n \in 1..Len(pages) } = ResolvedIds
       /\ Len(pages) = Cardinality(ResolvedIds)
  /\ \A p \in Pages : Cardinality(AnnotateCalls(p)) <= 1
  /\ \A i \in 1..Len(requests) :
       requests[i].to = "github_comment" => CommentLines(requests[i].text) = Cardinality(ResolvedIds)

\* A task found by the search on the page that the body links as well: one
\* record, one annotate call, one line in the comment.
C18_Witness ==
  /\ evt = PR.taskAndLink
  /\ \E i \in 1..Len(requests) :
       /\ requests[i].to = "notion_search"
       /\ requests[i].outcome.kind = "found" /\ requests[i].outcome.page = PageOf(1)
  /\ page_id_from_notion_url(refs.notion_links[1]) = PageOf(1)
  /\ LinkerReturned
  /\ Len(pages) = 1
  /\ Cardinality(AnnotateCalls(PageOf(1))) = 1
  /\ \E i \in 1..Len(requests) :
       requests[i].to = "github_comment" /\ CommentLines(requests[i].text) = 1

\* The direct links of the pull request that decode to page id p.
LinksTo(p) ==
  { refs.notion_links[n] : n \in { k \in 1..Len(refs.notion_links) :
                                     page_id_from_notion_url(refs.notion_links[k]) = p } }

\* C19: when a page id is reached by a direct link and by a search as well,
\* the merged record shows the URL of the direct link, not the synthesized
\* one.
C19_DirectLinkUrlPreferred ==
  lpc = "annotate" =>
    \A n \in 1..Len(pages) :
      LinksTo(pages[n][1]) # { } => pages[n][2] \in LinksTo(pages[n][1])

(***************************************************************************)
(* Properties of the identifier extraction                                 *)
(***************************************************************************)

\* The linker's short codes that occur in one text, upper-cased.
CodesIn(text) ==
  { toUpperCase(SubSeq(text, i, i + TaskRefLenAt(text, i) - 1)) :
      i \in { k \in 1..Len(text) : TaskRefLenAt(text, k) > 0 } }

\* The handlers' short codes (SPR or TASK) that occur in one text, upper-cased.
HandlerCodesIn(text) ==
  { toUpperCase(SubSeq(text, i, i + TaskMatchLenAt(text, i) - 1)) :
      i \in { k \in 1..Len(text) : TaskMatchLenAt(text, k) > 0 } }

\* The first of them, the empty text when there is none.
FirstHandlerCode(text) ==
  IF HandlerCodesIn(text) = { } THEN << >>
  ELSE LET i == CHOOSE k \in 1..Len(text) :
                  /\ TaskMatchLenAt(text, k) > 0
                  /\ \A j \in 1..(k - 1) : TaskMatchLenAt(text, j) = 0
       IN  toUpperCase(SubSeq(text, i, i + TaskMatchLenAt(text, i) - 1))

\* The task ids extracted, as a set.
TaskIdSet == { refs.task_ids[n] : n \in 1..Len(refs.task_ids) }

\* C21 (as stated): extraction returns the set of all distinct short codes
\* of the input fields, upper-cased; repeated mentions collapse, a second
\* extraction gives the same set, and no code is dropped in another order
\* of the fields - in the linker and in the webhook handlers.
C21_AllDistinctCodesExtracted ==
  /\ lpc = "extracted" =>
       TaskIdSet = CodesIn(evt.title) \cup CodesIn(evt.body) \cup CodesIn(evt.ref)
  /\ (lpc = "extracted" /\ pc = "extract") =>
       { fields.taskId } \ { << >> } = HandlerCodesIn(evt.ref) \cup HandlerCodesIn(evt.title)

\* C21 (amended): parse_task_refs returns the set of all distinct short
\* codes of title, body and branch, upper-cased, each once, the same on a
\* second extraction and in any order of the fields; the webhook handlers
\* extract one code only, the first of the git ref or else of the commit
\* message.
C21_LinkerAllHandlersFirst ==
  /\ lpc = "extracted" =>
       /\ TaskIdSet = CodesIn(evt.title) \cup CodesIn(evt.body) \cup CodesIn(evt.ref)
       /\ Len(refs.task_ids) = Cardinality(TaskIdSet)
       /\ \A n \in 1..Len(refs.task_ids) : refs.task_ids[n] = toUpperCase(refs.task_ids[n])
       /\ requests # << >> => refs.task_ids = requests[1].payload
  /\ (lpc = "extracted" /\ pc = "extract") =>
       fields.taskId = IF FirstHandlerCode(evt.ref) # << >> THEN FirstHandlerCode(evt.ref)
                       ELSE FirstHandlerCode(evt.title)

\* One task in three spellings beside another: two ids, found again after
\* the fields changed places.
C21_Witness ==
  /\ lpc = "extracted" /\ pc = "extract"
  /\ requests # << >>
  /\ evt.title = << "t", "a", "s", "k", "-", "1", " ", "T", "A", "S", "K", "-", "2", " ", "T", "a", "s", "k", "-", "1" >>
  /\ refs.task_ids = << << "T", "A", "S", "K", "-", "1" >>, << "T", "A", "S", "K", "-", "2" >> >>
  /\ requests[1].payload = refs.task_ids

(***************************************************************************)
(* Properties of deliveries at the same time                               *)
(***************************************************************************)

\* Every read of the children sent so far was answered 200.
ReadsAnswered ==
  \A i \in 1..Len(requests) :
    requests[i].to = "notion_children" =>
      requests[i].outcome.kind = "status" /\ requests[i].outcome.status = 200

\* C23: two deliveries of one event handled at the same time, their reads of
\* the children and their appends interleaved in any order, leave the page
\* with at most one block that contains the pull request's URL.
C23_NoDuplicateUnderInterleaving ==
  ReadsAnswered => \A p \in Pages : Cardinality(BlocksWithUrl(p)) <= 1


(***************************************************************************)
(* Outbound calls are made once                                            *)
(***************************************************************************)

\* The requests of one kind sent so far by the linker.
RequestsTo(dest) == { i \in DOMAIN requests : requests[i].to = dest }

\* C25: no outbound call is retried.  A handler makes at most one workspace
\* search and at most one call to a dispatch destination; a run of the linker
\* sends at most one search per short code, at most one append per page and at
\* most one comment, whatever the earlier calls came to.
C25_NoCallRetried ==
  /\ Cardinality(CallsTo("notion_search")) <= 1
  /\ Cardinality(CallsTo("slack") \cup CallsTo("github_dispatch")) <= 1
  /\ \A dest \in { "notion_search", "notion_append" } :
       \A i, j \in RequestsTo(dest) : requests[i].text = requests[j].text => i = j
  /\ Cardinality(RequestsTo("github_comment")) <= 1

\* A run of the linker that finished after a page refused the append: that
\* page was sent one append and no more.
C25_Witness ==
  /\ lpc = "exited" /\ exit_code = 0
  /\ \E i \in RequestsTo("notion_append") :
       /\ requests[i].outcome = Outcome("status", 403)
       /\ \A j \in RequestsTo("notion_append") : requests[j].text = requests[i].text => j = i
  /\ RequestsTo("github_comment") # { }


(***************************************************************************)
(* An endpoint that never answers                                          *)
(***************************************************************************)

\* `await fetch(...)` of the handlers is given no signal and no timeout: when
\* the endpoint never answers, the promise never settles and the handler
\* stays at the await.  (The linker's requests carry timeout=20 and raise,
\* which is the outcome "throws" of its calls.)
AwaitForever ==
  /\ \/ /\ pc = "lookup"
        /\ fields.taskId # << >> /\ env.NOTION_TOKEN # << >>
        /\ calls' = Append(calls, Call("notion_search", Outcome("pending", 0),
                                       fields.taskId, << >>))
        /\ trace' = Append(trace, "search")
     \/ /\ pc = "dispatch"
        /\ IF handler # "pages" /\ useDispatch(env)
             THEN /\ env.GH_REPO_DISPATCH_TOKEN # << >>
                  /\ calls' = Append(calls, Call("github_dispatch", Outcome("pending", 0), << >>,
                                                 dispatchPayload(handler, fields, notionUrl)))
                  /\ trace' = trace \o << "dispatch", "github" >>
           ELSE /\ env.SLACK_WEBHOOK_URL # << >>
                /\ calls' = Append(calls, Call("slack", Outcome("pending", 0),
                                               slackText(handler, fields, notionUrl), << >>))
                /\ trace' = trace \o << "dispatch", "slack" >>
  /\ pc' = "awaiting"
  /\ UNCHANGED lvars
  /\ UNCHANGED << wire, handler, env, request, sigOk, fields, notionUrl, response >>

\* An unsigned POST to a handler that verifies nothing, in any setting of the
\* destinations, with a payload of no field or of a git ref that names a
\* task.
AwaitInit ==
  /\ LinkerIdle
  /\ \E b \in { Body.empty, Body.noProfile }, h \in { "worker", "pages", "relay" } :
       \E e \in { x \in Environments(h) : x.EXPO_WEBHOOK_SECRET = << >> } :
         Fresh(h, e,
               [ method |-> "POST", path |-> P.webhook, signature |-> << >>, body |-> b ],
               Untampered(Secret(1), "none"))

AwaitNext == Next \/ AwaitForever

\* A handler where an endpoint may also never answer.  The runtime keeps
\* running an invocation that can take a step.
SpecAwait == AwaitInit /\ [][AwaitNext]_vars /\ WF_vars(AwaitNext)

\* The invocation is over: the handler responded or threw.
Terminated == pc \in { "responded", "threw" }

\* C26: every invocation eventually reaches a terminal state, also when a
\* remote endpoint never answers.
C26_EveryInvocationTerminates == <>Terminated


(***************************************************************************)
(* Direct links and the canonical id                                       *)
(***************************************************************************)

\* The id a direct link ends in, in canonical form: its last 32 characters
\* once the hyphens are taken out, when they are hex digits, in lower case
\* and in groups of 8-4-4-4-12.  The empty text when the link ends in no id.
CanonicalIdOf(link) ==
  LET s == stripHyphens(link)
      id == IF Len(s) >= 32 THEN toLowerCase(SubSeq(s, Len(s) - 31, Len(s))) ELSE << >>
  IN  IF id = << >> \/ \E i \in 1..Len(id) : ~IsHex(id[i]) THEN << >>
      ELSE [ i \in 1..36 |->
               IF i \in { 9, 14, 19, 24 } THEN "-"
               ELSE id[i - Cardinality({ h \in { 9, 14, 19, 24 } : h < i })] ]

\* C27: every direct link that ends in a record id, written with or without
\* hyphens and in any letter case, resolves to the canonical id of the record.
C27_DirectLinkResolvesToCanonicalId ==
  lpc \in { "search", "annotate" } =>
    \A i \in 1..Len(refs.notion_links) :
      CanonicalIdOf(refs.notion_links[i]) # << >> =>
        \E k \in 1..Len(pages) : pages[k][1] = CanonicalIdOf(refs.notion_links[i])

=============================================================================
